---------------------------- MODULE Spec2Model ----------------------------
(***************************************************************************)
(* A model of simulation-media-server: the RTSP control plane              *)
(* (rtsp/session.rs, rtsp/state.rs, rtsp/server.rs), the Annex-B NALU      *)
(* framer (source/file.rs), the H.264 RTP packetizer (rtp/h264.rs,         *)
(* rtp/packet.rs) and the UDP fan-out loop (main.rs).                      *)
(*                                                                         *)
(* Specifications:                                                         *)
(*   Spec       control plane: connections, registry, fan-out snapshots    *)
(*   SpecPkt    the packetizer applied to NALUs of chosen lengths          *)
(*   SpecParse  the framer fed an encoder stream in arbitrary chunks       *)
(*   SpecUdp    the UDP fan-out loop of start_video_streaming              *)
(*   SpecTcp    the per-connection loop of start_tcp_streaming             *)
(*   SpecLive   the control plane with fair scheduling of the handlers     *)
(*   SpecRtcp   the RTCP task and the sender report (rtcp/sr.rs)           *)
(*   SpecEnc    the fan-out loop with failing sends and a pipe that ends   *)
(*   SpecLock   the tasks of the server on the locks they share            *)
(***************************************************************************)
EXTENDS Integers, Sequences, FiniteSets, TLC

VARIABLES
    \* ---- control plane (Spec) ----
    now,            \* wall clock, in milliseconds
    pc,             \* pc[c]: where connection c's handler task stands
    session_id,     \* RtspSession.session_id
    cseq,           \* RtspSession.cseq
    transport_mode, \* RtspSession.transport_mode
    teardown,       \* history: "no" | "processed" | "returned" (200 written)
    clients,        \* ServerState.clients: session id -> ClientInfo
    fan_pc,         \* the fan-out loop: "read" | "dispatch"
    udp_clients,    \* the fan-out's snapshot (get_udp_clients)
    \* ---- media plane (SpecPkt, SpecParse, SpecUdp, SpecTcp) ----
    packetizer,     \* H264Packetizer: [sequence, timestamp]
    buffer,         \* NaluParser.buffer
    enc,            \* bytes the encoder has still to write to the pipe
    consumed,       \* bytes read from the pipe so far (history)
    emitted,        \* NALUs returned by parse so far (history)
    wire,           \* RTP packets sent so far, in order (history)
    nalu_in,        \* SpecPkt: the NALU handed to the last packetize call
    out,            \* SpecPkt: the packets the last packetize call returned
    hdrs,           \* SpecPkt: the headers of all packets emitted (history)
    calls,          \* SpecPkt: number of calls made
    last_count,     \* main.rs last_udp_clients_count
    sender_report,  \* SenderReport: [packet_count, octet_count]
    rtcp_pc,        \* the RTCP task of main.rs: "sleep" or "panicked"
    reports,        \* Sender Reports sent so far, in order (history)
    tcp_out,        \* bytes written to the TCP connection (history)
    child,          \* the encoder subprocess of start_tcp_streaming
    at,             \* SpecLock: at[t], where task t stands in its round
    lk,             \* SpecLock: lk[l], holders and queue of lock l
    sps,            \* parameter-set cache: SPS
    pps,            \* parameter-set cache: PPS
    mpc             \* media plane position

ctlVars == <<now, pc, session_id, cseq, transport_mode, teardown, clients,
             fan_pc, udp_clients>>
mediaVars == <<packetizer, buffer, enc, consumed, emitted, wire, nalu_in,
               out, hdrs, calls, last_count, sender_report,
                   rtcp_pc, reports, tcp_out, child, at, lk, sps, pps, mpc>>
vars == <<now, pc, session_id, cseq, transport_mode, teardown, clients,
          fan_pc, udp_clients, packetizer, buffer, enc, consumed,
          emitted, wire, nalu_in, out, hdrs, calls, last_count,
          sender_report,
                   rtcp_pc, reports, tcp_out, child, at, lk, sps, pps, mpc>>

(***************************************************************************)
(* Bounds of the model.                                                    *)
(***************************************************************************)
MaxConns == 2      \* connections accepted in one run
ClockStart == 254  \* the clock's value when the server starts
MaxTicks == 1      \* milliseconds the clock advances in one run
MaxCalls == 2      \* SpecPkt: calls made on one packetizer
MaxRead == 12      \* SpecParse: most bytes one read of the pipe returns

Conns == 1..MaxConns

(***************************************************************************)
(* Small helpers.                                                          *)
(***************************************************************************)
Range(f) == {f[x] : x \in DOMAIN f}

None == <<>>

\* format!("{:x}", n): lowercase hexadecimal, no padding
HexDigits == <<"0","1","2","3","4","5","6","7","8","9","a","b","c","d","e","f">>

RECURSIVE ToHex(_)
ToHex(n) ==
    IF n < 16 THEN <<HexDigits[n + 1]>>
    ELSE Append(ToHex(n \div 16), HexDigits[(n % 16) + 1])

\* generate_session_id: the clock's milliseconds, in hex
generate_session_id(millis) == ToHex(millis)


(***************************************************************************)
(* rtsp/state.rs: TransportMode, ClientInfo and the registry operations.   *)
(* A socket address is <<ip, port>>; an interleaved channel is             *)
(* <<"channel", n>>, so that the two transports stay comparable.           *)
(***************************************************************************)
NoTransport == [kind |-> "None", rtp |-> None, rtcp |-> None]

Udp(rtp_addr, rtcp_addr) ==
    [kind |-> "Udp", rtp |-> rtp_addr, rtcp |-> rtcp_addr]

TcpInterleaved(rtp_channel, rtcp_channel) ==
    [kind |-> "TcpInterleaved",
     rtp |-> <<"channel", rtp_channel>>, rtcp |-> <<"channel", rtcp_channel>>]

ClientInfo(id, transport, is_playing) ==
    [id |-> id, transport |-> transport, is_playing |-> is_playing]

\* (mutant) an insert that keeps the record already under the key
add_client_KeepExisting(reg, info) ==
    IF info.id \in DOMAIN reg THEN reg
    ELSE [k \in DOMAIN reg \cup {info.id} |-> IF k = info.id THEN info ELSE reg[k]]

\* ServerState::add_client: HashMap::insert, which replaces a record under
\* the same key
add_client(reg, info) ==
    [k \in DOMAIN reg \cup {info.id} |-> IF k = info.id THEN info ELSE reg[k]]

\* ServerState::set_playing: nothing when the key is absent
set_playing(reg, id, playing) ==
    IF id \in DOMAIN reg
    THEN [reg EXCEPT ![id].is_playing = playing]
    ELSE reg

\* ServerState::remove_client
remove_client(reg, id) == [k \in DOMAIN reg \ {id} |-> reg[k]]

\* ServerState::get_playing_clients
get_playing_clients(reg) == {reg[k] : k \in {j \in DOMAIN reg : reg[j].is_playing}}

\* (mutant) the UDP clients, playing or not
get_udp_clients_All(reg) ==
    [k \in {j \in DOMAIN reg : reg[j].transport.kind = "Udp"}
        |-> <<reg[k].transport.rtp, reg[k].transport.rtcp>>]

\* ServerState::get_udp_clients: the (rtp_addr, rtcp_addr) pairs of the
\* playing UDP clients.  The model keeps each pair under its registry key.
get_udp_clients(reg) ==
    [k \in {j \in DOMAIN reg : reg[j].is_playing /\ reg[j].transport.kind = "Udp"}
        |-> <<reg[k].transport.rtp, reg[k].transport.rtcp>>]

(***************************************************************************)
(* Requests.  A request is its request line (well formed or with fewer     *)
(* than two parts), its method and the headers the server reads.           *)
(***************************************************************************)
Methods == {"OPTIONS", "DESCRIBE", "SETUP", "PLAY", "TEARDOWN", "PAUSE"}

NoHeader == [present |-> FALSE, proto |-> "", cast |-> "",
             client_port |-> <<>>, interleaved |-> <<>>]

TransportHeader(proto, cast, client_port, interleaved) ==
    [present |-> TRUE, proto |-> proto, cast |-> cast,
     client_port |-> client_port, interleaved |-> interleaved]

TransportHeaders ==
    { NoHeader,
      TransportHeader("RTP/AVP", "unicast", <<6970>>, <<>>),
      TransportHeader("RTP/AVP/TCP", "unicast", <<>>, <<0, 1>>),
      TransportHeader("RTP/AVP", "multicast", <<6970, 6971>>, <<>>) }

\* cseq: <<>> when the request has no CSeq header, else <<value>>
CSeqHeaders == {<<>>, <<7>>}

Request(wellformed, method, cs, session, transport) ==
    [wellformed |-> wellformed, method |-> method, cseq |-> cs,
     session |-> session, transport |-> transport]

NoRequest == Request(FALSE, "", <<>>, FALSE, NoHeader)

\* the header sets of the requests: <<CSeq header, has a Session header>>
HeaderSets == {<<cs, FALSE>> : cs \in CSeqHeaders} \cup {<<<<7>>, TRUE>>}

Requests ==
    { Request(TRUE, m, h[1], h[2], NoHeader) :
        m \in Methods \ {"SETUP"}, h \in HeaderSets }
    \cup { Request(TRUE, "SETUP", h[1], h[2], t) :
        h \in HeaderSets, t \in TransportHeaders }
    \cup { Request(FALSE, "", cs, FALSE, NoHeader) : cs \in CSeqHeaders }

(***************************************************************************)
(* Responses: the status line and the headers the handlers format.         *)
(***************************************************************************)
Response(req, status, cs, session, transport) ==
    [method |-> req.method, status |-> status, cseq |-> cs,
     session |-> session, transport |-> transport]

NoResponse == Response(NoRequest, 0, 0, None, NoTransport)

\* RtspSession::error_response: status and CSeq, no Session header
error_response(c, req, code, cs) == Response(req, code, cs, None, NoTransport)

\* RtspSession::handle_options
handle_options(c, req, cs) == Response(req, 200, cs, None, NoTransport)

\* RtspSession::handle_describe
handle_describe(c, req, cs) == Response(req, 200, cs, None, NoTransport)

\* the CSeq loop of process_request: the header's value when there is one,
\* else the value kept from the earlier requests
ParseCSeq(c, req) == IF req.cseq = <<>> THEN cseq[c] ELSE req.cseq[1]

\* The Transport parsing of handle_setup
IsTcp(t) ==
    t.present /\ (t.proto = "RTP/AVP/TCP" \/ t.interleaved # <<>>)

InterleavedRtp(t) == IF t.interleaved # <<>> THEN t.interleaved[1] ELSE 0

InterleavedRtcp(t) ==
    IF t.interleaved = <<>> THEN 1
    ELSE IF Len(t.interleaved) >= 2 THEN t.interleaved[2]
    ELSE t.interleaved[1] + 1

ClientRtpPort(t) ==
    IF t.present /\ t.client_port # <<>> THEN t.client_port[1] ELSE 5004

ClientRtcpPort(t) ==
    IF ~t.present \/ t.client_port = <<>> THEN 5005
    ELSE IF Len(t.client_port) >= 2 THEN t.client_port[2]
    ELSE t.client_port[1] + 1

\* RtspSession.client_ip: the peer address of the connection
ClientIp(c) == IF c = 1 THEN "10.0.0.1" ELSE "10.0.0.2"

SetupTransport(c, t) ==
    IF IsTcp(t)
    THEN TcpInterleaved(InterleavedRtp(t), InterleavedRtcp(t))
    ELSE Udp(<<ClientIp(c), ClientRtpPort(t)>>, <<ClientIp(c), ClientRtcpPort(t)>>)

\* RtspSession::handle_setup: the registry after it, and its response
SetupRegistry(c, req) ==
    add_client(clients, ClientInfo(session_id[c], SetupTransport(c, req.transport), FALSE))

handle_setup(c, req, cs) ==
    Response(req, 200, cs, session_id[c], SetupTransport(c, req.transport))

\* RtspSession::handle_play
PlayRegistry(c) == set_playing(clients, session_id[c], TRUE)

\* the RTP-Info header handle_play formats: "seq=0;rtptime=0"
RtpInfo == [seq |-> 0, rtptime |-> 0]

handle_play(c, req, cs) ==
    Response(req, 200, cs, session_id[c], NoTransport) @@ [rtp_info |-> RtpInfo]

\* RtspSession::handle_teardown
TeardownRegistry(c) == remove_client(clients, session_id[c])

handle_teardown(c, req, cs) == Response(req, 200, cs, session_id[c], NoTransport)


\* RtspSession::process_request: the response to a request
process_request(c, req) ==
    IF ~req.wellformed THEN error_response(c, req, 400, cseq[c])
    ELSE CASE req.method = "OPTIONS"  -> handle_options(c, req, ParseCSeq(c, req))
           [] req.method = "DESCRIBE" -> handle_describe(c, req, ParseCSeq(c, req))
           [] req.method = "SETUP"    -> handle_setup(c, req, ParseCSeq(c, req))
           [] req.method = "PLAY"     -> handle_play(c, req, ParseCSeq(c, req))
           [] req.method = "TEARDOWN" -> handle_teardown(c, req, ParseCSeq(c, req))
           [] OTHER -> error_response(c, req, 405, ParseCSeq(c, req))

\* ... and the registry after it
ProcessRegistry(c, req) ==
    IF ~req.wellformed THEN clients
    ELSE CASE req.method = "SETUP"    -> SetupRegistry(c, req)
           [] req.method = "PLAY"     -> PlayRegistry(c)
           [] req.method = "TEARDOWN" -> TeardownRegistry(c)
           [] OTHER -> clients

(***************************************************************************)
(* rtp/packet.rs and rtp/h264.rs: the RTP packet and the H.264 packetizer. *)
(* A u16 is a number below 2^16.  A u32 is kept as two 16-bit limbs        *)
(* [hi, lo], so that its wrap-around at 2^32 is computed exactly.          *)
(***************************************************************************)
MTU == 1400
SSRC == 305419896          \* 0x12345678
PayloadType == 96
FrameTicks == 3000         \* 90000 / 30

U32(hi, lo) == [hi |-> hi, lo |-> lo]

\* (mutant) an addition that does not wrap at 2^16
wrapping_add_u16_NoWrap(a, b) == a + b

\* u16::wrapping_add
wrapping_add_u16(a, b) == (a + b) % 65536

\* u32::wrapping_add of a value below 2^16
wrapping_add_u32(t, d) ==
    U32((t.hi + ((t.lo + d) \div 65536)) % 65536, (t.lo + d) % 65536)

\* H264Packetizer::new
H264Packetizer_new == [sequence |-> 0, timestamp |-> U32(0, 0)]

\* RtpHeader::new, with the marker the packetizer then sets
RtpHeader(marker, sequence, timestamp) ==
    [marker |-> marker, payload_type |-> PayloadType, sequence |-> sequence,
     timestamp |-> timestamp, ssrc |-> SSRC]

\* RtpPacket::new
RtpPacket(header, payload) == [header |-> header, payload |-> payload]

\* nalu_header & 0xE0, nalu_header & 0x1F
AndE0(b) == (b \div 32) * 32
And1F(b) == b % 32

\* fragment_nalu: the FU indicator and the FU header of fragment i of n
\* (i counts from 0)
FuIndicator(nalu_header) == AndE0(nalu_header) + 28

FuHeader(nalu_header, i, n) ==
    And1F(nalu_header) + (IF i = 0 THEN 128 ELSE 0) + (IF i = n - 1 THEN 64 ELSE 0)

\* fragment_nalu: nalu[1..].chunks(MTU - 2)
ChunkSize == MTU - 2

NumChunks(nalu) == ((Len(nalu) - 1) + (ChunkSize - 1)) \div ChunkSize

\* (mutant) the chunks taken from the NALU with its header byte, not from
\* nalu[1..]
Chunk_WithHeader(nalu, i) ==
    SubSeq(nalu, 1 + i * ChunkSize,
           IF (i + 1) * ChunkSize < Len(nalu)
           THEN (i + 1) * ChunkSize ELSE Len(nalu))

Chunk(nalu, i) ==
    SubSeq(nalu, 2 + i * ChunkSize,
           IF 1 + (i + 1) * ChunkSize < Len(nalu)
           THEN 1 + (i + 1) * ChunkSize ELSE Len(nalu))

\* H264Packetizer::fragment_nalu
fragment_nalu(pk, nalu, is_last_nalu) ==
    [i \in 1..NumChunks(nalu) |->
        RtpPacket(
            RtpHeader((i = NumChunks(nalu)) /\ is_last_nalu,
                      wrapping_add_u16(pk.sequence, i - 1), pk.timestamp),
            <<FuIndicator(nalu[1]), FuHeader(nalu[1], i - 1, NumChunks(nalu))>>
                \o Chunk(nalu, i - 1))]

\* H264Packetizer::packetize: the packets it returns
packetize(pk, nalu, is_last) ==
    IF Len(nalu) = 0 THEN <<>>
    ELSE IF Len(nalu) <= MTU
    THEN <<RtpPacket(RtpHeader(is_last, pk.sequence, pk.timestamp), nalu)>>
    ELSE fragment_nalu(pk, nalu, is_last)

\* H264Packetizer::packetize: the packetizer after it (one wrapping_add(1)
\* for each packet pushed)
RECURSIVE BumpSequence(_, _)
BumpSequence(seq, n) ==
    IF n = 0 THEN seq ELSE BumpSequence(wrapping_add_u16(seq, 1), n - 1)

packetized(pk, nalu, is_last) ==
    [pk EXCEPT !.sequence = BumpSequence(@, Len(packetize(pk, nalu, is_last)))]

\* H264Packetizer::increment_timestamp
increment_timestamp(pk, duration_90khz) ==
    [pk EXCEPT !.timestamp = wrapping_add_u32(@, duration_90khz)]

\* RtpPacket::to_bytes: 12 header bytes, then the payload
PacketSize(packet) == 12 + Len(packet.payload)

\* u16::to_be_bytes and u32::to_be_bytes
U16Bytes(x) == <<x \div 256, x % 256>>
U32Bytes(u) == U16Bytes(u.hi) \o U16Bytes(u.lo)

\* RtpHeader::to_bytes: V=2, P=0, X=0, CC=0, then M and PT, the sequence
\* number, the timestamp and the SSRC
RtpHeader_to_bytes(header) ==
    <<128, (IF header.marker THEN 128 ELSE 0) + (header.payload_type % 128)>>
        \o U16Bytes(header.sequence)
        \o U32Bytes(header.timestamp)
        \o U16Bytes(header.ssrc \div 65536) \o U16Bytes(header.ssrc % 65536)

\* RtpPacket::to_bytes
RtpPacket_to_bytes(packet) == RtpHeader_to_bytes(packet.header) \o packet.payload

(***************************************************************************)
(* rtcp/sr.rs: the counters of the Sender Report, two u32 kept as limbs.   *)
(* `+=` is taken as the wrapping addition of a release build.              *)
(***************************************************************************)
\* SenderReport::new
SenderReport_new == [packet_count |-> U32(0, 0), octet_count |-> U32(0, 0)]

\* SenderReport::add_packet
add_packet(sr, size) ==
    [packet_count |-> wrapping_add_u32(sr.packet_count, 1),
     octet_count |-> wrapping_add_u32(sr.octet_count, size)]

(***************************************************************************)
(* rtcp/sr.rs: the timestamps of the Sender Report.  The code computes in  *)
(* u64; a number wider than 31 bits is kept here as a sequence of Limbs    *)
(* limbs of 16 bits, least significant first.                              *)
(***************************************************************************)
Limbs == 6
LimbBase == 65536

\* a small number as limbs
Wide(x) == [k \in 1..Limbs |-> IF k = 1 THEN x % LimbBase
                               ELSE IF k = 2 THEN x \div LimbBase ELSE 0]

\* a * m for 0 <= m <= 1000
RECURSIVE WideMulFrom(_, _, _, _)
WideMulFrom(a, m, k, carry) ==
    IF k > Limbs THEN <<>>
    ELSE <<(a[k] * m + carry) % LimbBase>>
         \o WideMulFrom(a, m, k + 1, (a[k] * m + carry) \div LimbBase)

WideMul(a, m) == WideMulFrom(a, m, 1, 0)

\* a + b
RECURSIVE WideAddFrom(_, _, _, _)
WideAddFrom(a, b, k, carry) ==
    IF k > Limbs THEN <<>>
    ELSE <<(a[k] + b[k] + carry) % LimbBase>>
         \o WideAddFrom(a, b, k + 1, (a[k] + b[k] + carry) \div LimbBase)

WideAdd(a, b) == WideAddFrom(a, b, 1, 0)

\* a / d (integer division) for 1 <= d <= 1000
RECURSIVE WideDivFrom(_, _, _, _)
WideDivFrom(a, d, k, rem) ==
    IF k < 1 THEN <<>>
    ELSE WideDivFrom(a, d, k - 1, (rem * LimbBase + a[k]) % d)
         \o <<(rem * LimbBase + a[k]) \div d>>

WideDiv(a, d) == WideDivFrom(a, d, Limbs, 0)

\* a << 32 and a >> 32
Shl32(a) == [k \in 1..Limbs |-> IF k <= 2 THEN 0 ELSE a[k - 2]]
Shr32(a) == [k \in 1..Limbs |-> IF k + 2 <= Limbs THEN a[k + 2] ELSE 0]

\* "as u64" and "as u32"
AsU64(a) == [k \in 1..Limbs |-> IF k <= 4 THEN a[k] ELSE 0]
AsU32(a) == U32(a[2], a[1])
FromU32(u) == [k \in 1..Limbs |-> IF k = 1 THEN u.lo
                                  ELSE IF k = 2 THEN u.hi ELSE 0]

\* a * 1_000_000_000 and a / 1_000_000_000, a * 90 / 1_000_000
MulBillion(a) == WideMul(WideMul(WideMul(a, 1000), 1000), 1000)
DivBillion(a) == WideDiv(WideDiv(WideDiv(a, 1000), 1000), 1000)
DivMillion(a) == WideDiv(WideDiv(a, 1000), 1000)

\* const NTP_OFFSET: u64 = 2_208_988_800, as limbs
NTP_OFFSET == [k \in 1..Limbs |-> IF k = 1 THEN 32384
                                  ELSE IF k = 2 THEN 33706 ELSE 0]

\* SenderReport::get_ntp_timestamp, the system clock read as millis
get_ntp_timestamp(millis) ==
    [secs |-> AsU32(WideAdd(Wide(millis \div 1000), NTP_OFFSET)),
     frac |-> AsU32(DivBillion(Shl32(Wide((millis % 1000) * 1000000))))]

\* total_nanos of SenderReport::ntp_to_rtp_timestamp
TotalNanos(ntp_secs, ntp_frac) ==
    WideAdd(MulBillion(FromU32(ntp_secs)),
            Shr32(MulBillion(FromU32(ntp_frac))))

\* "total_nanos * 90" leaves u64: a build with overflow checks panics
\* there, a build without them keeps the low 64 bits
MulOverflows(ntp_secs, ntp_frac) ==
    WideMul(TotalNanos(ntp_secs, ntp_frac), 90)
        # AsU64(WideMul(TotalNanos(ntp_secs, ntp_frac), 90))

\* SenderReport::ntp_to_rtp_timestamp in a build without overflow checks
ntp_to_rtp_timestamp(ntp_secs, ntp_frac) ==
    AsU32(DivMillion(AsU64(WideMul(TotalNanos(ntp_secs, ntp_frac), 90))))

\* SenderReport::to_bytes: the fields of the 28-byte packet, each written
\* big-endian in this order
SrPacket(sr, millis) ==
    [version |-> 128, pt |-> 200, length |-> 6, ssrc |-> SSRC,
     ntp_secs |-> get_ntp_timestamp(millis).secs,
     ntp_frac |-> get_ntp_timestamp(millis).frac,
     rtp_ts |-> ntp_to_rtp_timestamp(get_ntp_timestamp(millis).secs,
                                     get_ntp_timestamp(millis).frac),
     packet_count |-> sr.packet_count,
     octet_count |-> sr.octet_count]

(***************************************************************************)
(* source/file.rs: the Annex-B framer.  Indices into the buffer count      *)
(* from 0, as in the code; byte k of buffer b is b[k + 1].                 *)
(***************************************************************************)
At(b, k) == b[k + 1]

\* the two tests of find_start_code_at at index i
IsStartCode4(b, i) ==
    i + 3 < Len(b) /\ At(b, i) = 0 /\ At(b, i + 1) = 0 /\ At(b, i + 2) = 0
        /\ At(b, i + 3) = 1

IsStartCode3(b, i) ==
    i + 2 < Len(b) /\ At(b, i) = 0 /\ At(b, i + 1) = 0 /\ At(b, i + 2) = 1

\* the for loop of find_start_code_at: i runs over start..len.saturating_sub(3)
RECURSIVE ScanStartCode(_, _)
ScanStartCode(b, i) ==
    IF i >= Len(b) - 3 THEN None
    ELSE IF IsStartCode4(b, i) THEN <<i, 4>>
    ELSE IF IsStartCode3(b, i) THEN <<i, 3>>
    ELSE ScanStartCode(b, i + 1)

\* NaluParser::find_start_code_at: None or <<sc_start, sc_len>>
find_start_code_at(b, start) ==
    IF start >= Len(b) THEN None ELSE ScanStartCode(b, start)

\* buffer[from..to], indices from 0, `to` excluded
Slice(b, from, to) == SubSeq(b, from + 1, to)

\* the while loop of NaluParser::parse, from index i with `nalus` found so
\* far: the NALUs, the buffer it leaves and the index it stops at
RECURSIVE ParseLoop(_, _, _)
ParseLoop(b, i, nalus) ==
    IF i >= Len(b) THEN [nalus |-> nalus, buffer |-> b, i |-> i]
    ELSE LET sc == find_start_code_at(b, i) IN
         IF sc = None THEN [nalus |-> nalus, buffer |-> b, i |-> i]
         ELSE LET nalu_start == sc[1] + sc[2]
                  next == find_start_code_at(b, nalu_start)
              IN IF next = None
                 THEN [nalus |-> nalus, buffer |-> Slice(b, sc[1], Len(b)), i |-> i]
                 ELSE ParseLoop(b, next[1],
                        IF Slice(b, nalu_start, next[1]) # <<>>
                        THEN Append(nalus, Slice(b, nalu_start, next[1]))
                        ELSE nalus)

\* the last statement of parse: "if we processed all, clear buffer"
ClearIfProcessed(r) ==
    IF r.i > 0 /\ r.i >= Len(r.buffer) THEN [r EXCEPT !.buffer = <<>>] ELSE r

\* NaluParser::parse: the NALUs returned and the buffer kept
parse(buf, data) == ClearIfProcessed(ParseLoop(buf \o data, 0, <<>>))

(***************************************************************************)
(* main.rs, start_video_streaming: what one turn of the fan-out loop does  *)
(* with the NALUs of one read.  st is the loop's state, [packetizer, sps,  *)
(* pps, wire, sr]; `to` is the snapshot the turn took.  An entry of wire   *)
(* is a packet, the addresses send_to was called with for it, those among  *)
(* them for which send_to returned an error, and whether add_packet was    *)
(* called for it.  st.bad is the set of addresses whose sends fail during  *)
(* the turn.                                                               *)
(***************************************************************************)
\* the for loops over packets and over udp_clients: every packet goes to
\* every address of the snapshot, in the packetizer's order
Sent(packets, to) ==
    [i \in 1..Len(packets) |->
        [packet |-> packets[i], to |-> to, failed |-> {}, counted |-> FALSE]]

\* pac.packetize(nalu, is_last) and the sends that follow it
SendNalu(st, nalu, is_last, to) ==
    [st EXCEPT !.wire = @ \o Sent(packetize(st.packetizer, nalu, is_last), to),
               !.packetizer = packetized(@, nalu, is_last)]

\* "Detect new clients and send SPS/PPS": when the snapshot is larger than
\* the last one and both parameter sets are cached
ReplayParameterSets(st, count, last, to) ==
    IF count > last /\ st.sps # None /\ st.pps # None
    THEN SendNalu(SendNalu(st, st.sps, FALSE, to), st.pps, FALSE, to)
    ELSE st

\* the match on nalu_type that caches SPS (7) and PPS (8)
CacheParameterSet(st, nalu) ==
    [st EXCEPT !.sps = IF And1F(nalu[1]) = 7 THEN nalu ELSE @,
               !.pps = IF And1F(nalu[1]) = 8 THEN nalu ELSE @]

\* "for (i, nalu) in nalus.iter().enumerate()", with
\* is_last = i == nalus.len() - 1 (i counts from 1 here)
\* "sr.add_packet(size)" after the sends of each packet, size being the
\* length of packet.to_bytes()
RECURSIVE AddPackets(_, _, _)
AddPackets(sr, packets, i) ==
    IF i > Len(packets) THEN sr
    ELSE AddPackets(add_packet(sr, PacketSize(packets[i])), packets, i + 1)

\* the packets of one NALU of the for loop: sent, and counted
SendAndCount(st, nalu, is_last, to) ==
    LET sent == SendNalu(st, nalu, is_last, to) IN
    [sent EXCEPT
        !.sr = AddPackets(@, packetize(st.packetizer, nalu, is_last), 1),
        !.wire = [k \in DOMAIN @ |->
                    IF k > Len(st.wire) THEN [@[k] EXCEPT !.counted = TRUE]
                    ELSE @[k]]]

RECURSIVE ProcessNalus(_, _, _, _)
ProcessNalus(st, nalus, i, to) ==
    IF i > Len(nalus) THEN st
    ELSE ProcessNalus(
            SendAndCount(CacheParameterSet(st, nalus[i]), nalus[i],
                         i = Len(nalus), to),
            nalus, i + 1, to)

\* (mutant) a loop over the addresses that a failed send would end
SendToAll_BreakOnError(to, bad) ==
    IF to \cap bad = {} THEN to ELSE to \cap bad

\* "for (rtp_addr, _) in &udp_clients": the addresses send_to is called
\* with while the sends to `bad` fail; an Err is logged (or dropped, in the
\* replay) and the loop goes on
SendToAll(to, bad) == to

\* the entries of w after the first `from`, with the failed sends noted
MarkFailed(w, from, bad) ==
    [k \in DOMAIN w |->
        IF k > from THEN [w[k] EXCEPT !.failed = w[k].to \cap bad] ELSE w[k]]

\* one turn that sends: the replay, the NALUs, then
\* pac.increment_timestamp(3000), once
FanOut(st, nalus, snapshot, last) ==
    LET to == SendToAll({snapshot[k][1] : k \in DOMAIN snapshot}, st.bad)
        count == Cardinality(DOMAIN snapshot)
        done == ProcessNalus(ReplayParameterSets(st, count, last, to),
                             nalus, 1, to)
    IN [done EXCEPT !.packetizer = increment_timestamp(@, FrameTicks),
                    !.wire = MarkFailed(@, Len(st.wire), st.bad)]

(***************************************************************************)
(* rtsp/session.rs, start_tcp_streaming: what one turn of a connection's   *)
(* streaming loop does with the NALUs of one read.  st is [packetizer,     *)
(* sps, pps, wire]; `to` is the connection's interleaved RTP channel.      *)
(***************************************************************************)
\* the arm "5 =>" of the match: cached SPS, then cached PPS, each if present
ReplayBeforeIdr(st, nalu, to) ==
    IF And1F(nalu[1]) # 5 THEN st
    ELSE LET a == IF st.sps # None THEN SendNalu(st, st.sps, FALSE, to) ELSE st
         IN IF a.pps # None THEN SendNalu(a, a.pps, FALSE, to) ELSE a

\* is_au_end = nalu_type >= 1 && nalu_type <= 5
is_au_end(nalu) == And1F(nalu[1]) >= 1 /\ And1F(nalu[1]) <= 5

\* the body of "for nalu in nalus.iter()" for one NALU
TcpNalu(st, nalu, to) ==
    LET sent == SendNalu(ReplayBeforeIdr(CacheParameterSet(st, nalu), nalu, to),
                         nalu, is_au_end(nalu), to)
    IN IF is_au_end(nalu)
       THEN [sent EXCEPT !.packetizer = increment_timestamp(@, FrameTicks)]
       ELSE sent

RECURSIVE TcpNalus(_, _, _, _)
TcpNalus(st, nalus, i, to) ==
    IF i > Len(nalus) THEN st
    ELSE TcpNalus(TcpNalu(st, nalus[i], to), nalus, i + 1, to)

(***************************************************************************)
(* The control plane.  pc[c] is the await at which connection c's handler  *)
(* task stands:                                                            *)
(*   "free"       not accepted yet                                         *)
(*   "read"       handle: sock.read                                        *)
(*   "write"      handle: write_all / flush of the response, which is      *)
(*                process_request(c, req) of the request just processed    *)
(*   "check"      handle: the state.read() after the response              *)
(*   "streaming"  start_tcp_streaming: top of its loop                     *)
(*   "ended"      handle has returned                                      *)
(***************************************************************************)
Live(c) == pc[c] \notin {"free", "ended"}

(***************************************************************************)
(* The tasks of the server and the locks they share.                       *)
(***************************************************************************)
\* the task of main.rs:39-50 that runs the fan-out loop, the RTCP task it
\* spawns (main.rs:141-159), and one handler task per connection
FanOutTask == 0
RtcpTask == -1
LockTasks == {RtcpTask, FanOutTask} \cup Conns

\* SharedState (an RwLock), the packetizer and the sender report of
\* start_video_streaming (a Mutex each), the socket of each RtspSession (a
\* Mutex)
Registry == <<"registry", 0>>
PacketizerLock == <<"packetizer", 0>>
SenderReportLock == <<"sender_report", 0>>
SocketLock(c) == <<"socket", c>>
Locks ==
    {Registry, PacketizerLock, SenderReportLock} \cup {SocketLock(c) : c \in Conns}

\* no task is in a round, no lock is held or waited for
TasksIdle == [t \in LockTasks |-> [round |-> <<>>, i |-> 1]]

LocksFree == [l \in Locks |-> [holders |-> <<>>, queue |-> <<>>]]

MediaIdle ==
    /\ packetizer = H264Packetizer_new
    /\ buffer = <<>>
    /\ enc = <<>>
    /\ consumed = <<>>
    /\ emitted = <<>>
    /\ wire = <<>>
    /\ nalu_in = <<>>
    /\ out = <<>>
    /\ hdrs = <<>>
    /\ calls = 0
    /\ last_count = 0
    /\ sender_report = SenderReport_new
    /\ rtcp_pc = "sleep"
    /\ reports = <<>>
    /\ tcp_out = <<>>
    /\ child = "none"
    /\ at = TasksIdle
    /\ lk = LocksFree
    /\ sps = None
    /\ pps = None
    /\ mpc = "idle"

CtlIdle ==
    /\ now = ClockStart
    /\ pc = [c \in Conns |-> "free"]
    /\ session_id = [c \in Conns |-> None]
    /\ cseq = [c \in Conns |-> 0]
    /\ transport_mode = [c \in Conns |-> NoTransport]
    /\ teardown = [c \in Conns |-> "no"]
    /\ clients = <<>>
    /\ fan_pc = "read"
    /\ udp_clients = <<>>

Init == CtlIdle /\ MediaIdle

\* handle returns and the spawned task drops its RtspSession; the session
\* id is kept as history
Dropped(c) ==
    /\ pc' = [pc EXCEPT ![c] = "ended"]
    /\ cseq' = [cseq EXCEPT ![c] = 0]
    /\ transport_mode' = [transport_mode EXCEPT ![c] = NoTransport]

\* the clock advances (ClockStart is its value at the first accept)
Tick ==
    /\ pc[1] # "free"
    /\ now < ClockStart + MaxTicks
    /\ now' = now + 1
    /\ UNCHANGED <<pc, session_id, cseq, transport_mode, teardown,
                   clients, fan_pc, udp_clients>>
    /\ UNCHANGED mediaVars

\* RtspServer::run: accept, then RtspSession::new in the spawned task
Accept(c) ==
    /\ pc[c] = "free"
    /\ \A d \in Conns : d < c => pc[d] # "free"
    /\ pc' = [pc EXCEPT ![c] = "read"]
    /\ session_id' = [session_id EXCEPT ![c] = generate_session_id(now)]
    /\ UNCHANGED <<now, cseq, transport_mode, teardown, clients,
                   fan_pc, udp_clients>>
    /\ UNCHANGED mediaVars

\* handle: a request is read and process_request runs
Process(c, req) ==
    /\ pc[c] = "read"
    /\ pc' = [pc EXCEPT ![c] = "write"]
    /\ cseq' = [cseq EXCEPT ![c] = process_request(c, req).cseq]
    /\ transport_mode' =
         [transport_mode EXCEPT ![c] =
            IF req.wellformed /\ req.method = "SETUP"
            THEN SetupTransport(c, req.transport) ELSE @]
    /\ clients' = ProcessRegistry(c, req)
    /\ teardown' =
         [teardown EXCEPT ![c] =
            IF req.wellformed /\ req.method = "TEARDOWN" THEN "processed" ELSE @]
    /\ UNCHANGED <<now, session_id, fan_pc, udp_clients>>
    /\ UNCHANGED mediaVars

\* handle: read returns 0, the client has closed the connection
Close(c) ==
    /\ pc[c] = "read"
    /\ clients' = remove_client(clients, session_id[c])
    /\ Dropped(c)
    /\ UNCHANGED <<now, session_id, teardown, fan_pc, udp_clients>>
    /\ UNCHANGED mediaVars

\* handle: sock.read fails, and `?` returns the error
ReadError(c) ==
    /\ pc[c] = "read"
    /\ Dropped(c)
    /\ UNCHANGED <<now, session_id, teardown, clients, fan_pc, udp_clients>>
    /\ UNCHANGED mediaVars

\* handle: the response is written and flushed
WriteResponse(c) ==
    /\ pc[c] = "write"
    /\ pc' = [pc EXCEPT ![c] = "check"]
    /\ teardown' =
         [teardown EXCEPT ![c] =
            IF @ = "processed" THEN "returned" ELSE @]
    /\ UNCHANGED <<now, session_id, cseq, transport_mode, clients, fan_pc,
                   udp_clients>>
    /\ UNCHANGED mediaVars

\* handle: write_all or flush fails, and `?` returns the error
WriteError(c) ==
    /\ pc[c] = "write"
    /\ Dropped(c)
    /\ UNCHANGED <<now, session_id, teardown, clients, fan_pc, udp_clients>>
    /\ UNCHANGED mediaVars

\* handle: the condition under which start_tcp_streaming is called
StreamsTcp(c) ==
    /\ transport_mode[c].kind = "TcpInterleaved"
    /\ session_id[c] \in DOMAIN clients
    /\ clients[session_id[c]].is_playing

\* handle: after the response, back to read or into start_tcp_streaming
CheckStreaming(c) ==
    /\ pc[c] = "check"
    /\ pc' = [pc EXCEPT ![c] = IF StreamsTcp(c) THEN "streaming" ELSE "read"]
    /\ UNCHANGED <<now, session_id, cseq, transport_mode, teardown,
                   clients, fan_pc, udp_clients>>
    /\ UNCHANGED mediaVars

\* start_tcp_streaming: one turn of its loop with the client still playing.
\* The turn ends at the top of the loop again (data sent), in handle's read
\* (encoder EOF or read error: break), or with handle returning the error of
\* a failed send_interleaved_rtp.
TcpStreamTurn(c, outcome) ==
    /\ pc[c] = "streaming"
    /\ session_id[c] \in DOMAIN clients
    /\ clients[session_id[c]].is_playing
    /\ CASE outcome = "sent" ->
              UNCHANGED <<pc, cseq, transport_mode>>
         [] outcome = "eof" ->
              /\ pc' = [pc EXCEPT ![c] = "read"]
              /\ UNCHANGED <<cseq, transport_mode>>
         [] OTHER -> Dropped(c)
    /\ UNCHANGED <<now, session_id, teardown, clients, fan_pc, udp_clients>>
    /\ UNCHANGED mediaVars

\* start_tcp_streaming: the record is gone or no longer playing: break
TcpStreamStop(c) ==
    /\ pc[c] = "streaming"
    /\ ~(session_id[c] \in DOMAIN clients /\ clients[session_id[c]].is_playing)
    /\ pc' = [pc EXCEPT ![c] = "read"]
    /\ UNCHANGED <<now, session_id, cseq, transport_mode, teardown,
                   clients, fan_pc, udp_clients>>
    /\ UNCHANGED mediaVars

\* start_video_streaming: a read that yields NALUs, then the snapshot of
\* the playing UDP clients; with none the loop reads again
FanSnapshot ==
    /\ fan_pc = "read"
    /\ udp_clients' = get_udp_clients(clients)
    /\ fan_pc' = IF DOMAIN get_udp_clients(clients) = {} THEN "read" ELSE "dispatch"
    /\ UNCHANGED <<now, pc, session_id, cseq, transport_mode, teardown, clients>>
    /\ UNCHANGED mediaVars

\* start_video_streaming: the packets of the batch have been sent to the
\* clients of the snapshot
FanDispatch ==
    /\ fan_pc = "dispatch"
    /\ fan_pc' = "read"
    /\ udp_clients' = <<>>
    /\ UNCHANGED <<now, pc, session_id, cseq, transport_mode, teardown, clients>>
    /\ UNCHANGED mediaVars

Next ==
    \/ Tick
    \/ \E c \in Conns : Accept(c)
    \/ \E c \in Conns, req \in Requests : Process(c, req)
    \/ \E c \in Conns : Close(c)
    \/ \E c \in Conns : ReadError(c)
    \/ \E c \in Conns : WriteResponse(c)
    \/ \E c \in Conns : WriteError(c)
    \/ \E c \in Conns : CheckStreaming(c)
    \/ \E c \in Conns, o \in {"sent", "eof", "write_error"} : TcpStreamTurn(c, o)
    \/ \E c \in Conns : TcpStreamStop(c)
    \/ FanSnapshot
    \/ FanDispatch

Spec == Init /\ [][Next]_vars


(***************************************************************************)
(* SpecPkt: one packetizer, in a state it can have reached, on which       *)
(* packetize and increment_timestamp are called in any order.              *)
(***************************************************************************)
\* a NALU of `len` bytes: its header byte, then bytes that differ from
\* place to place
NaluOf(header, len) ==
    [i \in 1..len |-> IF i = 1 THEN header ELSE (header + 7 * i) % 256]

\* NAL headers: 0x65 (IDR slice, nal_ref_idc 3), 0x27 (SPS, nal_ref_idc 1)
PktHeaders == {101, 39}

\* lengths around the MTU and around a whole number of FU-A chunks
PktLengths == {1, MTU, MTU + 1, 1 + 2 * ChunkSize, 3000}

PktNalus == {<<>>} \cup {NaluOf(h, n) : h \in PktHeaders, n \in PktLengths}

\* packetizer states that a run of the server reaches: sequence numbers
\* and timestamps at the start and just before they wrap
PktStarts ==
    {[sequence |-> q, timestamp |-> t] :
        q \in {0, 65534}, t \in {U32(0, 0), U32(65535, 64536)}}

InitPkt ==
    /\ CtlIdle
    /\ packetizer \in PktStarts
    /\ buffer = <<>>
    /\ enc = <<>>
    /\ consumed = <<>>
    /\ emitted = <<>>
    /\ wire = <<>>
    /\ nalu_in = <<>>
    /\ out = <<>>
    /\ hdrs = <<>>
    /\ calls = 0
    /\ last_count = 0
    /\ sender_report = SenderReport_new
    /\ rtcp_pc = "sleep"
    /\ reports = <<>>
    /\ tcp_out = <<>>
    /\ child = "none"
    /\ at = TasksIdle
    /\ lk = LocksFree
    /\ sps = None
    /\ pps = None
    /\ mpc = "new"

\* a call of packetize
PktPacketize(nalu, is_last) ==
    /\ calls < MaxCalls
    /\ calls' = calls + 1
    /\ nalu_in' = nalu
    /\ out' = packetize(packetizer, nalu, is_last)
    /\ hdrs' = hdrs \o [i \in 1..Len(packetize(packetizer, nalu, is_last)) |->
                          packetize(packetizer, nalu, is_last)[i].header]
    /\ packetizer' = packetized(packetizer, nalu, is_last)
    /\ mpc' = "packetized"
    /\ UNCHANGED <<buffer, enc, consumed, emitted, wire, last_count,
                   sender_report,
                   rtcp_pc, reports, tcp_out, child, at, lk, sps, pps>>
    /\ UNCHANGED ctlVars

\* a call of increment_timestamp
PktIncrement ==
    /\ calls < MaxCalls
    /\ calls' = calls + 1
    /\ packetizer' = increment_timestamp(packetizer, FrameTicks)
    /\ mpc' = "incremented"
    /\ UNCHANGED <<buffer, enc, consumed, emitted, wire, nalu_in, out, hdrs,
                   last_count, sender_report,
                   rtcp_pc, reports, tcp_out, child, at, lk, sps, pps>>
    /\ UNCHANGED ctlVars

NextPkt ==
    \/ \E nalu \in PktNalus, is_last \in BOOLEAN : PktPacketize(nalu, is_last)
    \/ PktIncrement

SpecPkt == InitPkt /\ [][NextPkt]_vars

(***************************************************************************)
(* Claims about the packetizer (checked under SpecPkt).                    *)
(***************************************************************************)

\* C3: consecutive emitted packets carry sequence numbers that differ by
\* exactly 1 modulo 2^16 (65535 is followed by 0), the packetizer's
\* sequence is the one after the last packet emitted, and packetize of an
\* empty NALU emits nothing.
C3_SequenceLaw ==
    /\ \A i \in 1..(Len(hdrs) - 1) :
          hdrs[i + 1].sequence =
              (IF hdrs[i].sequence = 65535 THEN 0 ELSE hdrs[i].sequence + 1)
    /\ hdrs # <<>> =>
          packetizer.sequence =
              (IF hdrs[Len(hdrs)].sequence = 65535 THEN 0
               ELSE hdrs[Len(hdrs)].sequence + 1)
    /\ \A i \in 1..Len(hdrs) : hdrs[i].sequence \in 0..65535
    /\ (mpc = "packetized" /\ nalu_in = <<>>) => out = <<>>
    /\ (mpc = "packetized" /\ nalu_in # <<>>) => out # <<>>

\* C3's case: packets emitted across the wrap from 65535 to 0, by a FU-A
\* NALU, and then an empty NALU packetized
C3_Witness ==
    /\ mpc = "packetized"
    /\ nalu_in = <<>>
    /\ Len(hdrs) >= 3
    /\ \E i \in 1..(Len(hdrs) - 1) :
          hdrs[i].sequence = 65535 /\ hdrs[i + 1].sequence = 0

\* the NALU a receiver rebuilds from FU-A fragments: the reconstructed NAL
\* header, then the chunk bytes (each payload without its two FU bytes)
RECURSIVE ChunksOf(_)
ChunksOf(packets) ==
    IF packets = <<>> THEN <<>>
    ELSE SubSeq(packets[1].payload, 3, Len(packets[1].payload))
            \o ChunksOf(Tail(packets))

Reassemble(packets) ==
    <<AndE0(packets[1].payload[1]) + And1F(packets[1].payload[2])>>
        \o ChunksOf(packets)

\* C6: for a NALU longer than the MTU, the reconstructed NAL header
\* followed by the chunk bytes of the fragments, in emission order, is the
\* original NALU.
C6_FuaReassembly ==
    (mpc = "packetized" /\ Len(nalu_in) > MTU) => Reassemble(out) = nalu_in

\* C6's case: a NALU fragmented into three FU-A packets
C6_Witness ==
    /\ mpc = "packetized"
    /\ Len(nalu_in) > MTU
    /\ Len(out) = 3
    /\ out[1].payload[1] % 32 = 28

(***************************************************************************)
(* SpecParse: the framer fed an encoder stream that successive reads of    *)
(* the pipe cut into chunks of any sizes.                                  *)
(***************************************************************************)
SC4 == <<0, 0, 0, 1>>
SC3 == <<0, 0, 1>>

\* NAL header bytes: SPS 0x67, PPS 0x68, IDR slice 0x65, non-IDR slice 0x41
SPS == 103
PPS == 104
IDR == 101
SLICE == 65

\* Encoder streams.  NALU bytes are not 0 or 1, so every start code of a
\* stream is one the encoder wrote.
ParseStreams ==
    { \* SPS, PPS, IDR, slice with payload bytes, 4-byte start codes
      SC4 \o <<SPS>> \o SC4 \o <<PPS, 170>> \o SC4 \o <<IDR, 187>> \o SC4
          \o <<SLICE>> \o SC4,
      \* bytes before the first start code
      <<9, 9>> \o SC4 \o <<SPS>> \o SC4 \o <<IDR, 187, 204>> \o SC4,
      \* 3-byte start codes
      SC4 \o <<SPS>> \o SC3 \o <<PPS>> \o SC3 \o <<IDR, 187>> \o SC4,
      \* two start codes with nothing between them
      SC4 \o SC4 \o <<IDR, 187>> \o SC4 \o <<SLICE>> \o SC4 }

InitParse ==
    /\ CtlIdle
    /\ packetizer = H264Packetizer_new
    /\ buffer = <<>>
    /\ enc \in ParseStreams
    /\ consumed = <<>>
    /\ emitted = <<>>
    /\ wire = <<>>
    /\ nalu_in = <<>>
    /\ out = <<>>
    /\ hdrs = <<>>
    /\ calls = 0
    /\ last_count = 0
    /\ sender_report = SenderReport_new
    /\ rtcp_pc = "sleep"
    /\ reports = <<>>
    /\ tcp_out = <<>>
    /\ child = "none"
    /\ at = TasksIdle
    /\ lk = LocksFree
    /\ sps = None
    /\ pps = None
    /\ mpc = "parse"

\* reader.read returns the next n bytes of the pipe, which parse takes
ParseRead(n) ==
    /\ n <= Len(enc)
    /\ enc' = SubSeq(enc, n + 1, Len(enc))
    /\ consumed' = consumed \o SubSeq(enc, 1, n)
    /\ buffer' = parse(buffer, SubSeq(enc, 1, n)).buffer
    /\ emitted' = emitted \o parse(buffer, SubSeq(enc, 1, n)).nalus
    /\ UNCHANGED <<packetizer, wire, nalu_in, out, hdrs, calls, last_count,
                   sender_report,
                   rtcp_pc, reports, tcp_out, child, at, lk, sps, pps, mpc>>
    /\ UNCHANGED ctlVars

NextParse == \E n \in 1..MaxRead : ParseRead(n)

SpecParse == InitParse /\ [][NextParse]_vars

(***************************************************************************)
(* Claims about the framer (checked under SpecParse).                      *)
(***************************************************************************)
IsPrefix(a, b) == Len(a) <= Len(b) /\ SubSeq(b, 1, Len(a)) = a

\* 00 00 00 01 + NALU, over a sequence of NALUs
RECURSIVE Framed(_)
Framed(nalus) ==
    IF nalus = <<>> THEN <<>> ELSE SC4 \o nalus[1] \o Framed(Tail(nalus))

\* the index (from 1) of the first 00 00 01 of a byte sequence, or 0
RECURSIVE FirstStartCode(_, _)
FirstStartCode(b, k) ==
    IF k + 2 > Len(b) THEN 0
    ELSE IF b[k] = 0 /\ b[k + 1] = 0 /\ b[k + 2] = 1 THEN k
    ELSE FirstStartCode(b, k + 1)

\* the input without the bytes before its first start code (4 bytes long
\* when a 0 precedes its 00 00 01)
FromFirstStartCode(b) ==
    LET k == FirstStartCode(b, 1) IN
    IF k = 0 THEN <<>>
    ELSE IF k > 1 /\ b[k - 1] = 0 THEN SubSeq(b, k - 1, Len(b))
    ELSE SubSeq(b, k, Len(b))

\* every start code of the input is a 4-byte one
FourByteStartCodes(b) ==
    \A k \in 1..(Len(b) - 2) :
        (b[k] = 0 /\ b[k + 1] = 0 /\ b[k + 2] = 1) => (k > 1 /\ b[k - 1] = 0)

\* a byte that is not part of a start code follows every start code but the
\* last: no NALU of the input is empty
NoEmptyNalu(b) ==
    \A k \in 1..(Len(b) - 3) :
        (b[k] = 0 /\ b[k + 1] = 0 /\ b[k + 2] = 1) => b[k + 3] # 0

\* C7: for an input of non-empty NALUs behind 4-byte start codes, however
\* it is split into parse calls, 00 00 00 01 + NALU over the emitted NALUs,
\* in order, is a prefix of the input without the bytes before its first
\* start code: the round trip reproduces the input and no NALU between two
\* start codes is dropped or truncated.
C7_RoundTrip ==
    (FourByteStartCodes(consumed \o enc) /\ NoEmptyNalu(consumed \o enc))
        => IsPrefix(Framed(emitted), FromFirstStartCode(consumed))


(***************************************************************************)
(* SpecUdp: the fan-out loop of start_video_streaming reading an encoder   *)
(* stream, while sessions register, start and remove UDP clients.          *)
(***************************************************************************)
\* Two access units: SPS, PPS and an IDR slice, then a non-IDR slice; the
\* second stream closes with one more slice.
UdpStreams ==
    { SC4 \o <<SPS>> \o SC4 \o <<PPS>> \o SC4 \o <<IDR, 187>> \o SC4
          \o <<SLICE, 170>> \o SC4,
      SC4 \o <<SPS>> \o SC4 \o <<PPS>> \o SC4 \o <<IDR>> \o SC4
          \o <<SLICE>> \o SC4 \o <<SLICE, 204>> \o SC4 }

PeerId(c) == generate_session_id(ClockStart + c - 1)

PeerTransport(c) == Udp(<<ClientIp(c), 6970>>, <<ClientIp(c), 6971>>)

InitUdp ==
    /\ CtlIdle
    /\ packetizer = H264Packetizer_new
    /\ buffer = <<>>
    /\ enc \in UdpStreams
    /\ consumed = <<>>
    /\ emitted = <<>>
    /\ wire = <<>>
    /\ nalu_in = <<>>
    /\ out = <<>>
    /\ hdrs = <<>>
    /\ calls = 0
    /\ last_count = 0
    /\ sender_report = SenderReport_new
    /\ rtcp_pc = "sleep"
    /\ reports = <<>>
    /\ tcp_out = <<>>
    /\ child = "none"
    /\ at = TasksIdle
    /\ lk = LocksFree
    /\ sps = None
    /\ pps = None
    /\ mpc = "fanout"

sessVars == <<now, pc, session_id, cseq, transport_mode, teardown, fan_pc,
              udp_clients>>

\* what the sessions do to the registry: handle_setup, handle_play,
\* handle_teardown of a UDP client
PeerSetup(c) ==
    /\ clients' = add_client(clients, ClientInfo(PeerId(c), PeerTransport(c), FALSE))
    /\ UNCHANGED sessVars
    /\ UNCHANGED mediaVars

PeerPlay(c) ==
    /\ PeerId(c) \in DOMAIN clients
    /\ clients' = set_playing(clients, PeerId(c), TRUE)
    /\ UNCHANGED sessVars
    /\ UNCHANGED mediaVars

PeerTeardown(c) ==
    /\ PeerId(c) \in DOMAIN clients
    /\ clients' = remove_client(clients, PeerId(c))
    /\ UNCHANGED sessVars
    /\ UNCHANGED mediaVars

\* reader.read returns n bytes and parser.parse takes them
UdpRead(n) ==
    /\ mpc = "fanout"
    /\ n <= Len(enc)
    /\ enc' = SubSeq(enc, n + 1, Len(enc))
    /\ consumed' = consumed \o SubSeq(enc, 1, n)
    /\ buffer' = parse(buffer, SubSeq(enc, 1, n)).buffer
    /\ emitted' = emitted \o parse(buffer, SubSeq(enc, 1, n)).nalus
    /\ UNCHANGED <<nalu_in, out, hdrs, calls, mpc>>
    /\ UNCHANGED ctlVars

\* Ok(0): the encoder closed the pipe, the loop breaks
UdpEof ==
    /\ mpc = "fanout"
    /\ enc = <<>>
    /\ mpc' = "ended"
    /\ UNCHANGED <<packetizer, buffer, enc, consumed, emitted, wire, nalu_in,
                   out, hdrs, calls, last_count, sender_report,
                   rtcp_pc, reports, tcp_out, child, at, lk, sps, pps>>
    /\ UNCHANGED ctlVars

\* "if nalus.is_empty() { continue; }"
UdpNoNalu(n) ==
    /\ UdpRead(n)
    /\ parse(buffer, SubSeq(enc, 1, n)).nalus = <<>>
    /\ UNCHANGED <<packetizer, wire, last_count, sender_report,
                   rtcp_pc, reports, tcp_out, child, at, lk, sps, pps>>

\* "if udp_clients.is_empty() { continue; }"
UdpNoClient(n) ==
    /\ UdpRead(n)
    /\ parse(buffer, SubSeq(enc, 1, n)).nalus # <<>>
    /\ DOMAIN get_udp_clients(clients) = {}
    /\ UNCHANGED <<packetizer, wire, last_count, sender_report,
                   rtcp_pc, reports, tcp_out, child, at, lk, sps, pps>>

\* a turn that sends the NALUs of the read to the snapshot, while the
\* sends to the addresses of `bad` return an error
UdpSendWith(n, bad) ==
    /\ UdpRead(n)
    /\ parse(buffer, SubSeq(enc, 1, n)).nalus # <<>>
    /\ DOMAIN get_udp_clients(clients) # {}
    /\ LET done == FanOut([packetizer |-> packetizer, sps |-> sps,
                           pps |-> pps, wire |-> wire, sr |-> sender_report,
                           bad |-> bad],
                          parse(buffer, SubSeq(enc, 1, n)).nalus,
                          get_udp_clients(clients), last_count)
       IN /\ packetizer' = done.packetizer
          /\ sps' = done.sps
          /\ pps' = done.pps
          /\ wire' = done.wire
          /\ sender_report' = done.sr
    /\ UNCHANGED <<rtcp_pc, reports, tcp_out, child, at, lk>>
    /\ last_count' = Cardinality(DOMAIN get_udp_clients(clients))

\* the turn when every send succeeds
UdpSend(n) == UdpSendWith(n, {})

NextUdp ==
    \/ \E c \in Conns : PeerSetup(c) \/ PeerPlay(c) \/ PeerTeardown(c)
    \/ \E n \in 1..MaxRead : UdpNoNalu(n) \/ UdpNoClient(n) \/ UdpSend(n)
    \/ UdpEof

SpecUdp == InitUdp /\ [][NextUdp]_vars

(***************************************************************************)
(* SpecTcp: the loop of start_tcp_streaming on one connection, entered     *)
(* with the connection's record playing over TCP interleaved.  Only a      *)
(* connection that holds the same session_id can change the record while   *)
(* the loop runs.                                                          *)
(***************************************************************************)
TcpChannels == TcpInterleaved(0, 1)

\* what handle writes for a response, "RTSP/1.0 200 OK\r\n" and the blank
\* line that ends it (the header lines between them are left out)
ResponseBytes ==
    <<82, 84, 83, 80, 47, 49, 46, 48, 32, 50, 48, 48, 32, 79, 75, 13, 10, 13, 10>>

\* how many bytes of a frame a failing write_all has written
PartialWrites == {0, 1, 3, 4, 16}

InitTcp ==
    /\ now = ClockStart
    /\ pc = [c \in Conns |-> "free"]
    /\ session_id = [c \in Conns |-> None]
    /\ cseq = [c \in Conns |-> 0]
    /\ transport_mode = [c \in Conns |-> NoTransport]
    /\ teardown = [c \in Conns |-> "no"]
    /\ clients = add_client(<<>>, ClientInfo(PeerId(1), TcpChannels, TRUE))
    /\ fan_pc = "read"
    /\ udp_clients = <<>>
    /\ packetizer = H264Packetizer_new
    /\ buffer = <<>>
    /\ enc \in UdpStreams
    /\ consumed = <<>>
    /\ emitted = <<>>
    /\ wire = <<>>
    /\ nalu_in = <<>>
    /\ out = <<>>
    /\ hdrs = <<>>
    /\ calls = 0
    /\ last_count = 0
    /\ sender_report = SenderReport_new
    /\ rtcp_pc = "sleep"
    /\ reports = <<>>
    /\ tcp_out = ResponseBytes
    /\ child = "running"
    /\ at = TasksIdle
    /\ lk = LocksFree
    /\ sps = None
    /\ pps = None
    /\ mpc = "tcp"

\* a connection with the same session_id: its SETUP, its TEARDOWN or close
TwinSetup ==
    /\ clients' = add_client(clients, ClientInfo(PeerId(1), PeerTransport(2), FALSE))
    /\ UNCHANGED sessVars
    /\ UNCHANGED mediaVars

TwinTeardown ==
    /\ PeerId(1) \in DOMAIN clients
    /\ clients' = remove_client(clients, PeerId(1))
    /\ UNCHANGED sessVars
    /\ UNCHANGED mediaVars

\* "Check if client is still playing"
StillPlaying == PeerId(1) \in DOMAIN clients /\ clients[PeerId(1)].is_playing

\* the loop breaks and "let _ = child.kill()" follows it
TcpStopped ==
    /\ mpc = "tcp"
    /\ ~StillPlaying
    /\ mpc' = "ended"
    /\ child' = "killed"
    /\ UNCHANGED <<packetizer, buffer, enc, consumed, emitted, wire, nalu_in,
                   out, hdrs, calls, last_count, sender_report,
                   rtcp_pc, reports, tcp_out, at, lk, sps, pps>>
    /\ UNCHANGED ctlVars

\* Ok(0): the encoder closed the pipe
TcpEof ==
    /\ mpc = "tcp"
    /\ StillPlaying
    /\ enc = <<>>
    /\ mpc' = "ended"
    /\ child' = "killed"
    /\ UNCHANGED <<packetizer, buffer, enc, consumed, emitted, wire, nalu_in,
                   out, hdrs, calls, last_count, sender_report,
                   rtcp_pc, reports, tcp_out, at, lk, sps, pps>>
    /\ UNCHANGED ctlVars

\* Err(e) of reader.read: the loop breaks
TcpReadError ==
    /\ mpc = "tcp"
    /\ StillPlaying
    /\ mpc' = "ended"
    /\ child' = "killed"
    /\ UNCHANGED <<packetizer, buffer, enc, consumed, emitted, wire, nalu_in,
                   out, hdrs, calls, last_count, sender_report,
                   rtcp_pc, reports, tcp_out, at, lk, sps, pps>>
    /\ UNCHANGED ctlVars

\* (mutant) a frame whose length field counts the four bytes before the
\* packet as well
send_interleaved_rtp_LengthOfFrame(rtp_data, channel) ==
    <<36, channel, ((Len(rtp_data) + 4) \div 256) % 256, (Len(rtp_data) + 4) % 256>>
        \o rtp_data

\* RtspSession::send_interleaved_rtp: the bytes handed to one write_all,
\* '$', the channel, the length as two bytes, the packet
send_interleaved_rtp(rtp_data, channel) ==
    <<36, channel, (Len(rtp_data) \div 256) % 256, Len(rtp_data) % 256>>
        \o rtp_data

\* the frames of the packets w[from + 1 .. upto], one write_all each
RECURSIVE Frames(_, _, _)
Frames(w, from, upto) ==
    IF from >= upto THEN <<>>
    ELSE send_interleaved_rtp(RtpPacket_to_bytes(w[from + 1].packet),
                              TcpChannels.rtp[2])
         \o Frames(w, from + 1, upto)

\* the turn's outcome had every write succeeded
TcpDone(n) ==
    TcpNalus([packetizer |-> packetizer, sps |-> sps, pps |-> pps, wire |-> wire],
             parse(buffer, SubSeq(enc, 1, n)).nalus, 1,
             {TcpChannels.rtp})

TcpRead(n) ==
    /\ mpc = "tcp"
    /\ StillPlaying
    /\ n <= Len(enc)
    /\ enc' = SubSeq(enc, n + 1, Len(enc))
    /\ consumed' = consumed \o SubSeq(enc, 1, n)
    /\ buffer' = parse(buffer, SubSeq(enc, 1, n)).buffer
    /\ emitted' = emitted \o parse(buffer, SubSeq(enc, 1, n)).nalus
    /\ UNCHANGED <<nalu_in, out, hdrs, calls, last_count, sender_report, rtcp_pc, reports>>
    /\ UNCHANGED <<child, at, lk>>
    /\ UNCHANGED ctlVars

\* a turn whose writes all succeed
TcpTurn(n) ==
    /\ TcpRead(n)
    /\ packetizer' = TcpDone(n).packetizer
    /\ sps' = TcpDone(n).sps
    /\ pps' = TcpDone(n).pps
    /\ wire' = TcpDone(n).wire
    /\ tcp_out' = tcp_out \o Frames(TcpDone(n).wire, Len(wire), Len(TcpDone(n).wire))
    /\ mpc' = "tcp"

\* send_interleaved_rtp fails on the turn's packet number k + 1, after
\* write_all has put j bytes of its frame on the connection: the `?`
\* returns from start_tcp_streaming and from handle, and "child.kill()",
\* behind the loop, is not reached
TcpWriteError(n, k) ==
    /\ TcpRead(n)
    /\ Len(wire) + k < Len(TcpDone(n).wire)
    /\ wire' = SubSeq(TcpDone(n).wire, 1, Len(wire) + k)
    /\ \E j \in PartialWrites :
          tcp_out' = tcp_out
              \o Frames(TcpDone(n).wire, Len(wire), Len(wire) + k)
              \o SubSeq(Frames(TcpDone(n).wire, Len(wire) + k, Len(wire) + k + 1), 1, j)
    /\ UNCHANGED <<packetizer, sps, pps>>
    /\ mpc' = "failed"

\* the loop has ended without an error: handle reads the next request and
\* writes its response, under the lock of the socket like every frame
TcpRespond ==
    /\ mpc = "ended"
    /\ mpc' = "answered"
    /\ tcp_out' = tcp_out \o ResponseBytes
    /\ UNCHANGED <<packetizer, buffer, enc, consumed, emitted, wire, nalu_in,
                   out, hdrs, calls, last_count, sender_report, rtcp_pc,
                   reports, child, at, lk, sps, pps>>
    /\ UNCHANGED ctlVars

NextTcp ==
    \/ TwinSetup
    \/ TwinTeardown
    \/ TcpStopped
    \/ TcpEof
    \/ TcpReadError
    \/ \E n \in 1..MaxRead : TcpTurn(n)
    \/ \E n \in 1..MaxRead, k \in 0..MaxRead : TcpWriteError(n, k)
    \/ TcpRespond

SpecTcp == InitTcp /\ [][NextTcp]_vars

(***************************************************************************)
(* Claims about the RTP stream sent (checked under SpecUdp and SpecTcp).   *)
(***************************************************************************)
\* what a packet's payload says of the NALU it carries: its type, and
\* whether the packet holds the NALU's last byte (a single NAL unit packet,
\* or an FU-A fragment with the E bit)
NalTypeOf(packet) ==
    IF And1F(packet.payload[1]) = 28
    THEN And1F(packet.payload[2]) ELSE And1F(packet.payload[1])

EndsNalu(packet) ==
    And1F(packet.payload[1]) # 28 \/ (packet.payload[2] \div 64) % 2 = 1

\* an access unit ends with the last byte of a VCL NALU (types 1..5)
EndsAccessUnit(packet) == NalTypeOf(packet) \in 1..5 /\ EndsNalu(packet)

\* C4: in the stream a fan-out path sends, the marker bit is set on the packet
\* that carries the last byte of an access unit, and on no other.
C4_MarkerEndsAccessUnit ==
    \A k \in DOMAIN wire :
        wire[k].packet.header.marker <=> EndsAccessUnit(wire[k].packet)

\* C5: in the stream a fan-out path sends, a packet that follows the end of an
\* access unit carries the timestamp of the one before it plus 3000 modulo
\* 2^32, and any other packet carries the timestamp of the one before it.
C5_TimestampPerAccessUnit ==
    \A k \in 1..(Len(wire) - 1) :
        wire[k + 1].packet.header.timestamp =
            IF EndsAccessUnit(wire[k].packet)
            THEN wrapping_add_u32(wire[k].packet.header.timestamp, FrameTicks)
            ELSE wire[k].packet.header.timestamp


(***************************************************************************)
(* Claims about the control plane (checked under Spec).                    *)
(***************************************************************************)

\* the session of connection c is the only one that holds its session id
OwnsItsId(c) == \A d \in Conns \ {c} : session_id[d] # session_id[c]

\* C1: a registry snapshot the fan-out takes after a session's TEARDOWN has
\* returned its 200 never contains that session's client (a record under
\* its session id, which no other session holds).
C1_SnapshotExcludesTornDown ==
    [][FanSnapshot =>
        \A c \in Conns :
            (teardown[c] = "returned" /\ OwnsItsId(c))
                => session_id[c] \notin DOMAIN udp_clients']_vars

\* C2: no two live sessions hold the same session_id.
C2_SessionIdsUnique ==
    \A c, d \in Conns :
        (c # d /\ Live(c) /\ Live(d)) => session_id[c] # session_id[d]

\* C8: a client record changes state only along absent -> READY ->
\* PLAYING -> removed: no request of the session that owns the record
\* (SETUP in particular) takes a PLAYING record back to READY.
C8_LegalTransitions ==
    [][\A c \in Conns, req \in Requests :
          (Process(c, req) /\ OwnsItsId(c)
              /\ session_id[c] \in DOMAIN clients
              /\ clients[session_id[c]].is_playing
              /\ session_id[c] \in DOMAIN clients')
          => clients'[session_id[c]].is_playing]_vars

\* C9: a PLAY processed by a session that has no record in the registry is
\* answered with 455, never with 200, and leaves the registry unchanged.
C9_PlayWithoutRecordRejected ==
    [][\A c \in Conns, req \in Requests :
          (Process(c, req) /\ req.wellformed /\ req.method = "PLAY"
              /\ session_id[c] \notin DOMAIN clients)
          => (process_request(c, req).status = 455 /\ clients' = clients)]_vars

\* C10: once a session has processed TEARDOWN, no later request on its
\* connection puts a record with its session_id into the registry again.
C10_TeardownTerminal ==
    [][\A c \in Conns, req \in Requests :
          (Process(c, req) /\ teardown[c] # "no")
              => session_id[c] \notin DOMAIN clients']_vars

(***************************************************************************)
(* SpecLive: the control plane without socket faults, with the client's    *)
(* sending of TEARDOWN made a step of its own (teardown[c] = "sent": the   *)
(* request is in the connection's receive buffer, not read yet), and with  *)
(* every handler task scheduled fairly.  The encoder keeps producing data: *)
(* a turn of start_tcp_streaming always ends at the top of its loop.       *)
(***************************************************************************)
\* requests with a CSeq and a Session header
LiveRequests == {req \in Requests : req.wellformed /\ req.cseq # <<>> /\ req.session}

\* a client whose record is PLAYING sends TEARDOWN
ClientSendsTeardown(c) ==
    /\ Live(c)
    /\ teardown[c] = "no"
    /\ session_id[c] \in DOMAIN clients
    /\ clients[session_id[c]].is_playing
    /\ teardown' = [teardown EXCEPT ![c] = "sent"]
    /\ UNCHANGED <<now, pc, session_id, cseq, transport_mode, clients,
                   fan_pc, udp_clients>>
    /\ UNCHANGED mediaVars

\* handle reads the next request of the connection: the TEARDOWN when one
\* has been sent
LiveProcess(c, req) ==
    /\ teardown[c] = "sent" => req.method = "TEARDOWN"
    /\ Process(c, req)

\* the steps of connection c's handler task that need nothing from the
\* client
HandlerStep(c) ==
    \/ teardown[c] = "sent" /\ \E req \in LiveRequests : LiveProcess(c, req)
    \/ WriteResponse(c)
    \/ CheckStreaming(c)
    \/ TcpStreamTurn(c, "sent")
    \/ TcpStreamStop(c)

NextLive ==
    \/ Tick
    \/ \E c \in Conns : Accept(c)
    \/ \E c \in Conns, req \in LiveRequests : LiveProcess(c, req)
    \/ \E c \in Conns : ClientSendsTeardown(c)
    \/ \E c \in Conns : WriteResponse(c)
    \/ \E c \in Conns : CheckStreaming(c)
    \/ \E c \in Conns : TcpStreamTurn(c, "sent")
    \/ \E c \in Conns : TcpStreamStop(c)

SpecLive ==
    Init /\ [][NextLive]_vars /\ \A c \in Conns : WF_vars(HandlerStep(c))

\* C11: every TEARDOWN that a PLAYING client has sent on its control
\* connection is eventually read and processed, and its 200 written.
C11_TeardownEventuallyProcessed ==
    \A c \in Conns : (teardown[c] = "sent") ~> (teardown[c] = "returned")

(***************************************************************************)
(* Claims about the control plane, continued (checked under Spec).         *)
(***************************************************************************)
\* C12: whenever a connection's handler has ended, after a clean close, a
\* read error or a write error, the registry holds no record under its
\* session id (an id no other session holds).
C12_NoRecordAfterHandlerEnds ==
    \A c \in Conns :
        (pc[c] = "ended" /\ OwnsItsId(c)) => session_id[c] \notin DOMAIN clients

\* C13: when the write of an interleaved RTP frame to a TCP-interleaved
\* client fails, the step removes that client's record from the registry.
C13_TcpWriteErrorEvicts ==
    [][\A c \in Conns :
          TcpStreamTurn(c, "write_error") => session_id[c] \notin DOMAIN clients']_vars

\* C14: the response to a request that has a CSeq header carries that CSeq
\* value, for every method and for the 400 and 405 responses, whatever the
\* CSeq values of the earlier requests of the connection.
C14_ResponseEchoesCSeq ==
    [][\A c \in Conns, req \in Requests :
          (Process(c, req) /\ req.cseq # <<>>)
              => process_request(c, req).cseq = req.cseq[1]]_vars

\* C15: the response to a request that has a Session header has a Session
\* header, for every method and for error responses.
C15_ResponseHasSession ==
    [][\A c \in Conns, req \in Requests :
          (Process(c, req) /\ req.session)
              => process_request(c, req).session # None]_vars

\* C16: a SETUP whose Transport header has the token multicast is answered
\* with 461 and puts no record into the registry.
C16_MulticastRejected ==
    [][\A c \in Conns, req \in Requests :
          (Process(c, req) /\ req.wellformed /\ req.method = "SETUP"
              /\ req.transport.present /\ req.transport.cast = "multicast")
          => (process_request(c, req).status = 461 /\ clients' = clients)]_vars

\* the transport a Transport header asks for: the interleaved channel pair,
\* or the client's address with the ports of client_port (the RTCP port is
\* the RTP port plus one when client_port names one port)
NegotiatedTransport(c, t) ==
    IF t.interleaved # <<>>
    THEN [kind |-> "TcpInterleaved",
          rtp |-> <<"channel", t.interleaved[1]>>,
          rtcp |-> <<"channel", t.interleaved[2]>>]
    ELSE [kind |-> "Udp",
          rtp |-> <<ClientIp(c), t.client_port[1]>>,
          rtcp |-> <<ClientIp(c),
                     IF Len(t.client_port) = 2 THEN t.client_port[2]
                     ELSE t.client_port[1] + 1>>]

\* the SETUP requests that have a Transport header
SetupRequests == {r \in Requests : r.method = "SETUP" /\ r.transport.present}

C18_OnlyPlayingClientsReceive ==
    [][wire' # wire =>
        \A k \in (Len(wire) + 1)..Len(wire') :
            /\ \A a \in wire'[k].to :
                 \E id \in DOMAIN clients :
                     clients[id].is_playing /\ clients[id].transport.rtp = a
            /\ \A id \in DOMAIN clients :
                 (/\ ~clients[id].is_playing
                  /\ clients[id].transport.rtp \in wire'[k].to)
                 => \E other \in DOMAIN clients :
                        /\ clients[other].is_playing
                        /\ clients[other].transport.rtp = clients[id].transport.rtp]_vars

\* a packet has gone to the PLAYING client alone while another client is
\* READY
C18_Witness ==
    /\ wire # <<>>
    /\ \E c, d \in Conns :
        /\ PeerId(c) \in DOMAIN clients /\ clients[PeerId(c)].is_playing
        /\ PeerId(d) \in DOMAIN clients /\ ~clients[PeerId(d)].is_playing
        /\ wire[Len(wire)].to = {PeerTransport(c).rtp}
        /\ last_count = 1

\* C19: the seq and rtptime of the RTP-Info header that answers a PLAY of a
\* UDP client are the sequence number and the timestamp the fan-out's
\* packetizer has at that moment.
C19_RtpInfoIsCurrent ==
    [][\A c \in Conns :
          PeerPlay(c) =>
              /\ RtpInfo.seq = packetizer.sequence
              /\ U32(RtpInfo.rtptime \div 65536, RtpInfo.rtptime % 65536)
                     = packetizer.timestamp]_vars

\* the payload lengths of the counted packets of a stream, summed
RECURSIVE CountedPayload(_)
CountedPayload(w) ==
    IF w = <<>> THEN 0
    ELSE (IF w[1].counted THEN Len(w[1].packet.payload) ELSE 0)
         + CountedPayload(Tail(w))

\* C20: the Sender Report's octet_count is the sum, modulo 2^32, of the
\* payload lengths of the packets counted so far, their 12-byte RTP
\* headers left out.
C20_OctetCountIsPayload ==
    sender_report.octet_count
        = U32((CountedPayload(wire) \div 65536) % 65536, CountedPayload(wire) % 65536)

(***************************************************************************)
(* SpecRtcp: the RTCP task spawned by start_video_streaming next to the    *)
(* fan-out loop, with UDP and TCP-interleaved clients in the registry.     *)
(* The task sleeps five seconds, builds the report under the lock of the   *)
(* counters and sends it to the RTCP addresses of get_udp_clients.         *)
(***************************************************************************)
MaxReports == 2
SleepMillis == 5000

RtcpStream == SC4 \o <<SPS>> \o SC4 \o <<PPS>> \o SC4 \o <<IDR, 187>> \o SC4

\* the sizes of the reads from the pipe
RtcpReads == {5, 9}

InitRtcp ==
    /\ CtlIdle
    /\ packetizer = H264Packetizer_new
    /\ buffer = <<>>
    /\ enc = RtcpStream
    /\ consumed = <<>>
    /\ emitted = <<>>
    /\ wire = <<>>
    /\ nalu_in = <<>>
    /\ out = <<>>
    /\ hdrs = <<>>
    /\ calls = 0
    /\ last_count = 0
    /\ sender_report = SenderReport_new
    /\ rtcp_pc = "sleep"
    /\ reports = <<>>
    /\ tcp_out = <<>>
    /\ child = "none"
    /\ at = TasksIdle
    /\ lk = LocksFree
    /\ sps = None
    /\ pps = None
    /\ mpc = "fanout"

\* handle_setup of a client that asks for RTP/AVP/TCP;interleaved=0-1
TcpPeerSetup(c) ==
    /\ clients' = add_client(clients, ClientInfo(PeerId(c), TcpInterleaved(0, 1), FALSE))
    /\ UNCHANGED sessVars
    /\ UNCHANGED mediaVars

\* the RTCP addresses the task sends one report to
RtcpTargets(reg) == {get_udp_clients(reg)[k][2] : k \in DOMAIN get_udp_clients(reg)}

\* one turn of the task: sleep, sr.to_bytes(), get_udp_clients, send_to
RtcpReport ==
    /\ rtcp_pc = "sleep"
    /\ Len(reports) < MaxReports
    /\ now' = now + SleepMillis
    /\ reports' = Append(reports, [packet |-> SrPacket(sender_report, now + SleepMillis),
                                   to |-> RtcpTargets(clients)])
    /\ UNCHANGED <<pc, session_id, cseq, transport_mode, teardown, clients,
                   fan_pc, udp_clients>>
    /\ UNCHANGED <<packetizer, buffer, enc, consumed, emitted, wire, nalu_in,
                   out, hdrs, calls, last_count, sender_report, rtcp_pc,
                   tcp_out, child, at, lk, sps, pps, mpc>>

\* the turn in a build with overflow checks: to_bytes panics in
\* ntp_to_rtp_timestamp and the task ends
RtcpPanic ==
    /\ rtcp_pc = "sleep"
    /\ Len(reports) < MaxReports
    /\ MulOverflows(get_ntp_timestamp(now + SleepMillis).secs,
                    get_ntp_timestamp(now + SleepMillis).frac)
    /\ now' = now + SleepMillis
    /\ rtcp_pc' = "panicked"
    /\ UNCHANGED <<pc, session_id, cseq, transport_mode, teardown, clients,
                   fan_pc, udp_clients>>
    /\ UNCHANGED <<packetizer, buffer, enc, consumed, emitted, wire, nalu_in,
                   out, hdrs, calls, last_count, sender_report, reports,
                   tcp_out, child, at, lk, sps, pps, mpc>>

NextRtcp ==
    \/ \E c \in Conns : PeerSetup(c) \/ TcpPeerSetup(c) \/ PeerPlay(c) \/ PeerTeardown(c)
    \/ \E n \in RtcpReads : UdpNoNalu(n) \/ UdpNoClient(n) \/ UdpSend(n)
    \/ UdpEof
    \/ RtcpReport
    \/ RtcpPanic

SpecRtcp == InitRtcp /\ [][NextRtcp]_vars

(***************************************************************************)
(* Claims about the Sender Reports (checked under SpecRtcp).               *)
(***************************************************************************)
\* C21: the RTP timestamp written into a Sender Report is the timestamp of
\* the fan-out packetizer at the moment the report is built.
C21_SrTimestampIsPacketizer ==
    [][reports' # reports =>
        reports'[Len(reports')].packet.rtp_ts = packetizer.timestamp]_vars

\* C22: a Sender Report goes to every client that is PLAYING when it is
\* sent, a TCP-interleaved client included (on its rtcp channel).
C22_SrReachesEveryPlayingClient ==
    [][reports' # reports =>
        \A id \in DOMAIN clients :
            clients[id].is_playing
                => clients[id].transport.rtcp \in reports'[Len(reports')].to]_vars

(***************************************************************************)
(* SpecEnc: the fan-out loop up to the end of the encoder's output.  The   *)
(* loop is a task of its own and takes its turns: weak fairness on its     *)
(* steps.  After the loop start_video_streaming kills the child and        *)
(* returns; nothing calls it again.  In any turn the sends to some of the  *)
(* clients may fail.                                                       *)
(***************************************************************************)
\* Err(e): the read from the pipe fails, the loop breaks
UdpReadError ==
    /\ mpc = "fanout"
    /\ mpc' = "ended"
    /\ UNCHANGED <<packetizer, buffer, enc, consumed, emitted, wire, nalu_in,
                   out, hdrs, calls, last_count, sender_report, rtcp_pc,
                   reports, tcp_out, child, at, lk, sps, pps>>
    /\ UNCHANGED ctlVars

\* the sizes of the reads from the pipe
EncReads == {5, 9, 11, 14}

\* the RTP addresses a turn of the fan-out sends to
RtpTargets(reg) == {get_udp_clients(reg)[k][1] : k \in DOMAIN get_udp_clients(reg)}

FanOutStep ==
    \/ UdpReadError
    \/ UdpEof
    \/ \E n \in EncReads :
          \/ UdpNoNalu(n)
          \/ UdpNoClient(n)
          \/ \E bad \in SUBSET RtpTargets(clients) : UdpSendWith(n, bad)

NextEnc ==
    \/ \E c \in Conns : PeerSetup(c) \/ PeerPlay(c) \/ PeerTeardown(c)
    \/ \E n \in EncReads :
          \/ UdpNoNalu(n)
          \/ UdpNoClient(n)
          \/ \E bad \in SUBSET RtpTargets(clients) : UdpSendWith(n, bad)
    \/ UdpEof
    \/ UdpReadError

\* the stream of SpecRtcp, and one with a second IDR slice
EncStreams ==
    { RtcpStream,
      SC4 \o <<SPS>> \o SC4 \o <<PPS>> \o SC4 \o <<IDR>> \o SC4
          \o <<IDR, 187>> \o SC4 }

InitEnc ==
    /\ CtlIdle
    /\ packetizer = H264Packetizer_new
    /\ buffer = <<>>
    /\ enc \in EncStreams
    /\ consumed = <<>>
    /\ emitted = <<>>
    /\ wire = <<>>
    /\ nalu_in = <<>>
    /\ out = <<>>
    /\ hdrs = <<>>
    /\ calls = 0
    /\ last_count = 0
    /\ sender_report = SenderReport_new
    /\ rtcp_pc = "sleep"
    /\ reports = <<>>
    /\ tcp_out = <<>>
    /\ child = "none"
    /\ at = TasksIdle
    /\ lk = LocksFree
    /\ sps = None
    /\ pps = None
    /\ mpc = "fanout"

SpecEnc == InitEnc /\ [][NextEnc]_vars /\ WF_vars(FanOutStep)

\* C23: after the encoder's output has ended (EOF or read error) the
\* fan-out runs again: the encoder is restarted and the loop resumes, with
\* the packetizer it had.
C23_FanOutResumesAfterEof == (mpc = "ended") ~> (mpc = "fanout")

(***************************************************************************)
(* Claims about the parameter sets (checked under SpecEnc).                *)
(***************************************************************************)
\* the packets of NAL type t that went to address a
SentTo(w, a, t) == {k \in DOMAIN w : a \in w[k].to /\ NalTypeOf(w[k].packet) = t}

\* C24: when the first IDR slice goes to a client while SPS and PPS are in
\* the cache, the client has been sent an SPS and a PPS before it, or is
\* sent them right after it.
C24_ParameterSetsReachNewClient ==
    [][wire' # wire =>
        \A a \in UNION {wire'[k].to : k \in DOMAIN wire'} :
            (/\ SentTo(wire, a, 5) = {}
             /\ SentTo(wire', a, 5) # {}
             /\ sps # None
             /\ pps # None)
            => (SentTo(wire', a, 7) # {} /\ SentTo(wire', a, 8) # {})]_vars

(***************************************************************************)
(* Claims about failing sends (checked under SpecEnc).                     *)
(***************************************************************************)
\* C25: a send of an RTP packet that fails for one client stops nothing:
\* every packet of the turn, and of later turns, is sent to every client of
\* the snapshot of its turn.
C25_SendErrorDoesNotStopFanOut ==
    [][wire' # wire =>
        \A k \in (Len(wire) + 1)..Len(wire') :
            wire'[k].to = RtpTargets(clients)]_vars

\* a packet whose send failed for one client went to another one as well,
\* and the next packet was sent to the client of the failed send again
C25_Witness ==
    \E k \in DOMAIN wire :
        /\ wire[k].failed # {}
        /\ wire[k].to \ wire[k].failed # {}
        /\ k < Len(wire)
        /\ wire[k].failed \subseteq wire[k + 1].to

(***************************************************************************)
(* Claims about the bytes on a TCP-interleaved connection (checked under   *)
(* SpecTcp).  The handler task is the only writer of its socket.           *)
(***************************************************************************)
\* what a receiver reads from the connection: a unit is either a response
\* (channel -1) or a frame, '$', channel, length in two bytes and as many
\* bytes of data; `rest` is what is left when no whole unit follows
RECURSIVE Deframe(_, _, _)
Deframe(b, i, units) ==
    IF i > Len(b) THEN [units |-> units, rest |-> <<>>]
    ELSE IF b[i] = 36
    THEN IF i + 3 <= Len(b) /\ i + 3 + b[i + 2] * 256 + b[i + 3] <= Len(b)
         THEN Deframe(b, i + 4 + b[i + 2] * 256 + b[i + 3],
                      Append(units,
                             [channel |-> b[i + 1],
                              data |-> SubSeq(b, i + 4, i + 3 + b[i + 2] * 256 + b[i + 3])]))
         ELSE [units |-> units, rest |-> SubSeq(b, i, Len(b))]
    ELSE IF /\ i + Len(ResponseBytes) - 1 <= Len(b)
            /\ SubSeq(b, i, i + Len(ResponseBytes) - 1) = ResponseBytes
    THEN Deframe(b, i + Len(ResponseBytes),
                 Append(units, [channel |-> -1, data |-> ResponseBytes]))
    ELSE [units |-> units, rest |-> SubSeq(b, i, Len(b))]

IsFrame(unit) == unit.channel # -1

\* C26: the bytes written on the connection are whole units: each frame is
\* '$', the RTP channel, the 16-bit big-endian length and the bytes of one
\* packet, in the order the packets were sent; a response stands before
\* the first frame or after the last, never inside one; only a write that
\* failed leaves a frame unfinished, and nothing follows it.
C26_FramesAreAtomic ==
    LET read == Deframe(tcp_out, 1, <<>>) IN
    /\ SelectSeq(read.units, IsFrame)
         = [k \in 1..Len(wire) |->
               [channel |-> 0, data |-> RtpPacket_to_bytes(wire[k].packet)]]
    /\ \A k \in DOMAIN read.units :
          ~IsFrame(read.units[k]) => (k = 1 \/ k = Len(read.units))
    /\ read.rest # <<>> => mpc = "failed"

\* two frames, then the response to the next request
C26_Witness ==
    /\ mpc = "answered"
    /\ Len(wire) >= 2
    /\ Len(Deframe(tcp_out, 1, <<>>).units) = Len(wire) + 2

(***************************************************************************)
(* Claims about the tasks that emit RTP (checked under Spec).              *)
(***************************************************************************)
\* the tasks that are sending RTP packets: the fan-out between its snapshot
\* and the end of the batch, a handler inside the loop of
\* start_tcp_streaming
EmittingTasks ==
    {c \in Conns : pc[c] = "streaming"}
        \cup (IF fan_pc = "dispatch" THEN {FanOutTask} ELSE {})

\* the SSRC of the packetizer a task emits from: the fan-out has the one of
\* start_video_streaming, each handler makes its own in start_tcp_streaming,
\* all with H264Packetizer::new(0x12345678)
PacketizerSsrc(task) == SSRC

\* C27: two tasks never emit RTP packets with the same SSRC, each from a
\* packetizer of its own.
C27_OneEmitterPerSsrc ==
    \A t, u \in EmittingTasks : t # u => PacketizerSsrc(t) # PacketizerSsrc(u)

(***************************************************************************)
(* C28: the FU-A example, a NALU of 3000 bytes (checked under SpecPkt).    *)
(***************************************************************************)
ExampleLen == 3000

\* the S and E bits of a FU header
StartBit(fu_header) == fu_header \div 128
EndBit(fu_header) == (fu_header \div 64) % 2

\* what the example states of the packets of one call, but for the payload
\* lengths: S and E bits, one timestamp, sequence numbers s0, s0+1, s0+2
\* (s0 and t0 are the packetizer's before the call), marker on the third
\* only, and only for the last NALU of the access unit
ExampleShape(pk, packets, lengths) ==
    /\ Len(packets) = 3
    /\ [i \in 1..3 |-> Len(packets[i].payload)] = lengths
    /\ [i \in 1..3 |-> StartBit(packets[i].payload[2])] = <<1, 0, 0>>
    /\ [i \in 1..3 |-> EndBit(packets[i].payload[2])] = <<0, 0, 1>>
    /\ \A i \in 1..3 : packets[i].header.timestamp = pk.timestamp
    /\ \A i \in 1..3 :
          packets[i].header.sequence = (pk.sequence + i - 1) % 65536
    /\ ~packets[1].header.marker
    /\ ~packets[2].header.marker

\* C28 (as stated): packetizing a 3000-byte NALU yields exactly three
\* packets with payload lengths 1400, 1400 and 204, FU headers S=1,E=0 then
\* S=0,E=0 then S=0,E=1, one timestamp, sequence numbers s0, s0+1, s0+2, and
\* the marker on the third only, and only when it is last in its access
\* unit.
C28_FuaExampleAsStated ==
    [][\A is_last \in BOOLEAN :
          (PktPacketize(NaluOf(101, ExampleLen), is_last)
              \/ PktPacketize(NaluOf(39, ExampleLen), is_last))
          => /\ ExampleShape(packetizer, out', <<1400, 1400, 204>>)
             /\ out'[3].header.marker = is_last]_vars

\* C28 (amended): the same, with payload lengths 1400, 1400 and 205: the
\* 2999 bytes after the NAL header are cut into chunks of 1398, 1398 and
\* 203 bytes, and each chunk is preceded by the two FU bytes.
C28_FuaExample ==
    [][\A is_last \in BOOLEAN :
          (PktPacketize(NaluOf(101, ExampleLen), is_last)
              \/ PktPacketize(NaluOf(39, ExampleLen), is_last))
          => /\ ExampleShape(packetizer, out', <<1400, 1400, 205>>)
             /\ out'[3].header.marker = is_last]_vars

\* C28's case: a 3000-byte NALU, last in its access unit, packetized into
\* three packets whose sequence numbers wrap
C28_Witness ==
    /\ mpc = "packetized"
    /\ Len(nalu_in) = ExampleLen
    /\ Len(out) = 3
    /\ out[3].header.marker
    /\ out[1].header.sequence = 65534
    /\ out[3].header.sequence = 0

(***************************************************************************)
(* C29: what the framer retains between calls (checked under SpecParse).   *)
(***************************************************************************)
\* the places of the input where find_start_code_at reports a start code:
\* 00 00 00 01 or 00 00 01 with at least one byte of the input behind the
\* place's third byte
ObservedStartCodes(b) ==
    {k \in 1..(Len(b) - 3) :
        \/ SubSeq(b, k, k + 3) = SC4
        \/ SubSeq(b, k, k + 2) = SC3}

\* the place the last observed start code begins at: the 0 before its
\* 00 00 01 belongs to it
LastStartCode(b) ==
    LET last == CHOOSE k \in ObservedStartCodes(b) :
                    \A j \in ObservedStartCodes(b) : j <= k
    IN  IF last > 1 /\ SubSeq(b, last, last + 2) = SC3 /\ b[last - 1] = 0
        THEN last - 1 ELSE last

\* C29: after every parse call, once a start code has been seen, the
\* buffer holds exactly the input bytes from the last observed start code
\* onward (the unterminated NALU); it is never emptied while a NALU is
\* unterminated or a start code is partial.
C29_BufferKeepsUnterminated ==
    ObservedStartCodes(consumed) # {}
        => buffer = SubSeq(consumed, LastStartCode(consumed), Len(consumed))

(***************************************************************************)
(* C30: the parameter-set cache of the fan-out (checked under SpecUdp).    *)
(***************************************************************************)
\* the most recent NALU of type t among the NALUs the parser returned, or
\* None
LastOfType(nalus, t) ==
    LET places == {k \in DOMAIN nalus : And1F(nalus[k][1]) = t}
    IN  IF places = {} THEN None
        ELSE nalus[CHOOSE k \in places : \A j \in places : j <= k]

\* C30: after the fan-out has consumed any prefix of the encoder stream,
\* the cache holds the most recent SPS (type 7) and the most recent PPS
\* (type 8) NALU of that prefix, including those read while no client was
\* PLAYING.
C30_CacheHoldsLatestParameterSets ==
    /\ sps = LastOfType(emitted, 7)
    /\ pps = LastOfType(emitted, 8)

(***************************************************************************)
(* C31: the packet counter of the sender report (checked under SpecUdp).   *)
(***************************************************************************)
\* C31: the sender report's packet_count is the number of RTP packets the
\* fan-out has emitted from its packetizer, each counted once however many
\* clients it is sent to, the SPS/PPS packets replayed for newly joined
\* clients included.
C31_PacketCountIsEmitted ==
    sender_report.packet_count = U32(0, Len(wire))

(***************************************************************************)
(* C33: the encoder subprocess of start_tcp_streaming (checked under       *)
(* SpecTcp).                                                               *)
(***************************************************************************)
\* start_tcp_streaming has returned: after the loop (Ok), or by the `?` of
\* a failed write (Err)
TcpReturned == mpc \in {"ended", "answered", "failed"}

\* C33: every encoder subprocess started by start_tcp_streaming is killed
\* before the function returns, on every exit path: client stopped or
\* removed, encoder EOF, pipe read error, failure of a write to the client.
C33_ChildKilledOnReturn ==
    TcpReturned => child = "killed"

(***************************************************************************)
(* SpecLock: the tasks of the server taking and releasing the locks they   *)
(* share.  A round of a task is one lock scope of its code: the lock       *)
(* operations from a point where the task holds no lock to the next such   *)
(* point.  A pass through a loop is a sequence of rounds; socket and pipe  *)
(* operations return.  tokio's Mutex and RwLock hand a lock to the waiting *)
(* tasks in the order of their requests (a queued writer holds back the    *)
(* readers behind it).                                                     *)
(***************************************************************************)
Acq(l, m) == <<"acq", l, m>>
Rel(l, m) == <<"rel", l, m>>

\* "state.read().await.get_udp_clients()", "self.state.read().await" in a
\* block: the guard is dropped before the next lock is asked for
RegistryRead == <<Acq(Registry, "r"), Rel(Registry, "r")>>

\* "self.state.write().await.add_client(..)", set_playing, remove_client
RegistryWrite == <<Acq(Registry, "w"), Rel(Registry, "w")>>

\* "let mut sock = self.socket.lock().await" in a block of its own
SocketLocked(c) == <<Acq(SocketLock(c), "w"), Rel(SocketLock(c), "w")>>

\* the fan-out loop: the replay holds the packetizer; each NALU holds the
\* packetizer and, for each packet, the sender report inside it;
\* increment_timestamp holds the packetizer again
PacketizerLocked == <<Acq(PacketizerLock, "w"), Rel(PacketizerLock, "w")>>

NaluLocked ==
    <<Acq(PacketizerLock, "w"), Acq(SenderReportLock, "w"),
      Rel(SenderReportLock, "w"), Rel(PacketizerLock, "w")>>

FanOutRounds == {RegistryRead, PacketizerLocked, NaluLocked}

\* the RTCP task: the sender report is held from to_bytes to the end of the
\* pass, the registry is read inside it
RtcpRounds ==
    { <<Acq(SenderReportLock, "w")>> \o RegistryRead
          \o <<Rel(SenderReportLock, "w")>> }

\* one pass of the loop of start_tcp_streaming with one packet
StreamTurn(c) == RegistryRead \o SocketLocked(c)

\* (mutant) handle without "drop(state)": the read guard lives to the end
\* of the block, around start_tcp_streaming
CheckStreamingLocks_NoDrop(streaming) ==
    <<Acq(Registry, "r")>> \o streaming \o <<Rel(Registry, "r")>>

\* handle, after the response: "let state = self.state.read().await",
\* dropped before start_tcp_streaming is called (or at the end of the
\* block when the client is not playing)
CheckStreamingLocks(streaming) ==
    <<Acq(Registry, "r"), Rel(Registry, "r")>> \o streaming

\* handle: the read of a request and the write of its response; SETUP,
\* PLAY, TEARDOWN and a read that returns 0 (remove_client); the check
\* behind the response over an interleaved transport, for a client that is
\* not playing and for one that is
HandlerRounds(c) ==
    { SocketLocked(c),
      RegistryWrite,
      CheckStreamingLocks(<<>>),
      CheckStreamingLocks(StreamTurn(c)) }

Rounds(t) ==
    IF t = FanOutTask THEN FanOutRounds
    ELSE IF t = RtcpTask THEN RtcpRounds
    ELSE HandlerRounds(t)

\* the operation task t stands before, or None at the end of its round
OpOf(t) ==
    IF at[t].i <= Len(at[t].round) THEN at[t].round[at[t].i] ELSE None

Queued(t, l) == \E k \in DOMAIN lk[l].queue : lk[l].queue[k][1] = t

\* task t is inside lock().await, read().await or write().await
Waiting(t) == \E l \in Locks : Queued(t, l)

Holds(t, l) == \E k \in DOMAIN lk[l].holders : lk[l].holders[k][1] = t

lockVars == <<at, lk>>

otherVars ==
    <<packetizer, buffer, enc, consumed, emitted, wire, nalu_in, out, hdrs,
      calls, last_count, sender_report, rtcp_pc, reports, tcp_out, child,
      sps, pps, mpc>>

InitLock == CtlIdle /\ MediaIdle

\* a task enters a lock scope: it asks for the scope's first lock
LockStart(t, round) ==
    /\ OpOf(t) = None
    /\ at' = [at EXCEPT ![t] = [round |-> round, i |-> 1]]
    /\ lk' = [lk EXCEPT ![round[1][2]].queue = Append(@, <<t, round[1][3]>>)]
    /\ UNCHANGED otherVars
    /\ UNCHANGED ctlVars

\* lock().await, read().await, write().await inside a scope: the task
\* joins the queue
LockRequest(t) ==
    /\ OpOf(t) # None
    /\ OpOf(t)[1] = "acq"
    /\ ~Waiting(t)
    /\ lk' = [lk EXCEPT ![OpOf(t)[2]].queue = Append(@, <<t, OpOf(t)[3]>>)]
    /\ UNCHANGED at
    /\ UNCHANGED otherVars
    /\ UNCHANGED ctlVars

\* the lock goes to the first task of its queue: a reader when no writer
\* holds it, a writer (or the owner of a Mutex) when nobody holds it
LockGrant(l) ==
    /\ lk[l].queue # <<>>
    /\ IF Head(lk[l].queue)[2] = "r"
       THEN \A k \in DOMAIN lk[l].holders : lk[l].holders[k][2] = "r"
       ELSE lk[l].holders = <<>>
    /\ lk' = [lk EXCEPT ![l] = [holders |-> Append(@.holders, Head(@.queue)),
                                queue |-> Tail(@.queue)]]
    /\ at' = [at EXCEPT ![Head(lk[l].queue)[1]].i = @ + 1]
    /\ UNCHANGED otherVars
    /\ UNCHANGED ctlVars

\* a sequence without its first element equal to x
RECURSIVE WithoutOne(_, _)
WithoutOne(seq, x) ==
    IF seq = <<>> THEN <<>>
    ELSE IF Head(seq) = x THEN Tail(seq)
    ELSE <<Head(seq)>> \o WithoutOne(Tail(seq), x)

\* the guard is dropped
LockRelease(t) ==
    /\ OpOf(t) # None
    /\ OpOf(t)[1] = "rel"
    /\ lk' = [lk EXCEPT ![OpOf(t)[2]].holders = WithoutOne(@, <<t, OpOf(t)[3]>>)]
    /\ at' = [at EXCEPT ![t].i = @ + 1]
    /\ UNCHANGED otherVars
    /\ UNCHANGED ctlVars

\* what a task that is inside a round does by itself
TaskStep(t) == LockRequest(t) \/ LockRelease(t)

NextLock ==
    \/ \E t \in LockTasks : \E round \in Rounds(t) : LockStart(t, round)
    \/ \E t \in LockTasks : TaskStep(t)
    \/ \E l \in Locks : LockGrant(l)

\* every task that is scheduled runs, and a lock that can be handed over is
\* handed over
SpecLock ==
    /\ InitLock
    /\ [][NextLock]_vars
    /\ \A t \in LockTasks : WF_vars(TaskStep(t))
    /\ \A l \in Locks : WF_vars(LockGrant(l))

\* task t has passed the lock().await, read().await or write().await it
\* stood before, and holds the lock
Acquired(t) ==
    /\ ~Waiting(t)
    /\ at[t].i > 1
    /\ at[t].round[at[t].i - 1][1] = "acq"
    /\ Holds(t, at[t].round[at[t].i - 1][2])

\* C32: no interleaving of the fan-out loop, the RTCP task and the RTSP
\* sessions deadlocks on the registry lock, the packetizer mutex, the
\* sender-report mutex and the socket mutexes: every task waiting for one of
\* these locks eventually acquires it.
C32_WaitingTaskAcquires ==
    \A t \in LockTasks : Waiting(t) ~> Acquired(t)

\* C32's case: the RTCP task holds the sender report and waits for the
\* registry behind a handler that waits to write it, while the fan-out
\* holds the packetizer and waits for the sender report
C32_Witness ==
    /\ Holds(RtcpTask, SenderReportLock)
    /\ Len(lk[Registry].queue) >= 2
    /\ lk[Registry].queue[1][2] = "w"
    /\ Queued(RtcpTask, Registry)
    /\ Holds(FanOutTask, PacketizerLock)
    /\ Queued(FanOutTask, SenderReportLock)

=============================================================================
